---------------------------- MODULE Spec2Model ----------------------------
(***************************************************************************)
(* A model of StockService (src/src/data/stock_service.py): the quote      *)
(* cache, the chart cache and the bounded search-result cache, with the    *)
(* handlers that read and write them.                                      *)
(*                                                                         *)
(* Time is the value of datetime.now() in whole seconds.  Strings that the *)
(* code takes apart or converts (chart cache keys, search terms) are       *)
(* sequences of one-character strings; strings that are only compared      *)
(* (quote symbols) are TLA+ strings.  A Python dict is a function, except  *)
(* the search cache, whose iteration order decides min(): it is the        *)
(* sequence of its items in insertion order.                               *)
(***************************************************************************)
EXTENDS Integers, Sequences, FiniteSets, TLC

VARIABLES
    now,                      \* datetime.now(), seconds
    stock_data_cache,         \* self._stock_data_cache: symbol -> quote
    cache_timestamps,         \* self._cache_timestamps: symbol -> time
    chart_data_cache,         \* self._chart_data_cache: cache_key -> series
    chart_cache_timestamps,   \* self._chart_cache_timestamps: cache_key -> time
    search_cache,             \* self._search_cache, items in insertion order
    call,                     \* the last call: the operation and its arguments
    ret,                      \* what the last call returned
    provider_log,             \* the requests the last call made to yfinance
    stored,                   \* history: the last put of each key of each cache
    read_keys,                \* history: the search keys read since they were stored
    debounce_tasks,           \* self._debounce_tasks: search_term -> task
    calls,                    \* the debounced_search calls made, each with its task
    threads                   \* the threads working on the chart cache, each with its position

vars == <<now, stock_data_cache, cache_timestamps, chart_data_cache,
          chart_cache_timestamps, search_cache, call, ret, provider_log, stored,
          read_keys, debounce_tasks, calls, threads>>

quote_vars == <<stock_data_cache, cache_timestamps>>
chart_vars == <<chart_data_cache, chart_cache_timestamps>>
debounce_vars == <<debounce_tasks, calls>>

(***************************************************************************)
(* Program constants.                                                      *)
(***************************************************************************)
CacheDuration == 300
ChartCacheDuration == 600
SearchCacheDuration == 1800

\* Optional[...]: None, or a value.
None == <<>>
Some(v) == <<v>>

\* d[k] = v, as the mutant that keeps the value a key already has
DictSetKeep(d, k, v) == IF k \in DOMAIN d THEN d ELSE [x \in DOMAIN d \cup {k} |-> IF x = k THEN v ELSE d[x]]

\* A function (Python dict) with key k set to v, k new or not.
DictSet(d, k, v) == [x \in DOMAIN d \cup {k} |-> IF x = k THEN v ELSE d[x]]

EmptyDict == [x \in {} |-> 0]

NoLog == [batches |-> <<>>, infos |-> <<>>, history |-> <<>>]

(***************************************************************************)
(* The quote cache.                                                        *)
(***************************************************************************)
\* _is_cache_valid(symbol) on timestamps ts at time t
IsCacheValidLate(ts, symbol, t) ==
    IF symbol \notin DOMAIN ts THEN FALSE
    ELSE t - ts[symbol] <= CacheDuration

IsCacheValid(ts, symbol, t) ==
    IF symbol \notin DOMAIN ts THEN FALSE
    ELSE t - ts[symbol] < CacheDuration

\* _get_from_cache(symbol); dict.get gives None for a missing key
GetFromCache(cache, ts, symbol, t) ==
    IF IsCacheValid(ts, symbol, t)
    THEN IF symbol \in DOMAIN cache THEN Some(cache[symbol]) ELSE None
    ELSE None

\* _store_in_cache(symbol, data): the two maps after the call
StoreInCache(cache, ts, symbol, data, t) ==
    [cache |-> DictSet(cache, symbol, data), ts |-> DictSet(ts, symbol, t)]


(***************************************************************************)
(* get_stock_data.                                                         *)
(***************************************************************************)
\* constants.py: the default symbol list ('NVDA' is listed twice)
POPULAR_TICKERS ==
    <<"AAPL", "GOOGL", "GOOG", "AMZN", "MSFT", "NVDA", "META", "NFLX", "ADBE", "CRM",
      "ORCL", "IBM", "INTC", "AMD", "QCOM", "AVGO", "CSCO", "PYPL", "SQ", "UBER",
      "LYFT", "SNAP", "TWTR", "ZOOM", "TSLA", "F", "GM", "NIO", "NVDA">>

\* The record built at lines 118-130.  Every field but 'symbol' is copied from
\* the provider's info; 'change' is the one the handler reads again (the sort).
StockData(symbol, info) == [symbol |-> symbol, change |-> info.change]

\* Is x before y in sorted(..., key=change, reverse=True)?  (ascending: the mutant)
ChangeBeforeAsc(x, y) == x.change <= y.change

ChangeBefore(x, y) == x.change >= y.change

\* x put into the sorted list s behind every record that stays before it
SortInsert(s, x) ==
    LET n == Cardinality({i \in 1..Len(s) : ChangeBefore(s[i], x)})
    IN  SubSeq(s, 1, n) \o <<x>> \o SubSeq(s, n + 1, Len(s))

RECURSIVE SortedByChange(_)
\* sorted(data_list, key=lambda x: x['change'], reverse=True): a stable sort
SortedByChange(s) ==
    IF s = <<>> THEN <<>>
    ELSE SortInsert(SortedByChange(SubSeq(s, 1, Len(s) - 1)), s[Len(s)])

\* The except branch of the loop, lines 135-137, as a mutant that gives up
OnFetchErrorBreak(to_fetch, j) == Len(to_fetch) + 1

\* The except branch of the loop, lines 135-137: continue with the next symbol
OnFetchError(to_fetch, j) == j + 1

RECURSIVE FetchLoop(_, _, _, _, _)
\* for symbol in symbols_to_fetch, lines 104-137, from position j on.
\* answer[j] is what tickers.tickers[symbol].info gives at position j.
FetchLoop(to_fetch, answer, j, acc, t) ==
    IF j > Len(to_fetch) THEN acc
    ELSE LET symbol == to_fetch[j] IN
         IF ~answer[j].ok
         THEN FetchLoop(to_fetch, answer, OnFetchError(to_fetch, j),
                        [acc EXCEPT !.infos = Append(@, [symbol |-> symbol, ok |-> FALSE])],
                        t)
         ELSE LET stock_data == StockData(symbol, answer[j])
                  st == StoreInCache(acc.cache, acc.ts, symbol, stock_data, t)
              IN  FetchLoop(to_fetch, answer, j + 1,
                            [data_list |-> Append(acc.data_list, stock_data),
                             cache |-> st.cache,
                             ts |-> st.ts,
                             infos |-> Append(acc.infos, [symbol |-> symbol, ok |-> TRUE])],
                            t)

\* The symbols the cache does not answer, lines 93-98; every cached quote is
\* a non-empty dict, so `if cached_data` is `cached_data is not None`.  (The
\* mutant asks for every symbol.)
SymbolsToFetchAll(cache, ts, symbols, t) == symbols

SymbolsToFetch(cache, ts, symbols, t) ==
    SelectSeq(symbols, LAMBDA s : GetFromCache(cache, ts, s, t) = None)

\* The body of the try, lines 89-139.  batch_ok: yf.Tickers(...) did not raise.
GetStockDataTry(cache, ts, symbols, batch_ok, answer, t) ==
    LET hits == SelectSeq(symbols, LAMBDA s : GetFromCache(cache, ts, s, t) # None)
        data_list == [i \in 1..Len(hits) |-> GetFromCache(cache, ts, hits[i], t)[1]]
        symbols_to_fetch == SymbolsToFetch(cache, ts, symbols, t)
    IN  IF symbols_to_fetch = <<>>
        THEN [raised |-> FALSE, value |-> SortedByChange(data_list),
              cache |-> cache, ts |-> ts, log |-> NoLog]
        ELSE IF ~batch_ok
        THEN [raised |-> TRUE, value |-> <<>>, cache |-> cache, ts |-> ts,
              log |-> [NoLog EXCEPT !.batches = <<[symbols |-> symbols_to_fetch, ok |-> FALSE]>>]]
        ELSE LET acc == FetchLoop(symbols_to_fetch, answer, 1,
                                  [data_list |-> data_list, cache |-> cache,
                                   ts |-> ts, infos |-> <<>>], t)
             IN  [raised |-> FALSE, value |-> SortedByChange(acc.data_list),
                  cache |-> acc.cache, ts |-> acc.ts,
                  log |-> [NoLog EXCEPT
                           !.batches = <<[symbols |-> symbols_to_fetch, ok |-> TRUE]>>,
                           !.infos = acc.infos]]

\* get_stock_data(symbols), lines 72-142; symbols_arg is None or Some(list)
GetStockData(cache, ts, symbols_arg, batch_ok, answer, t) ==
    LET symbols == IF symbols_arg = None THEN POPULAR_TICKERS ELSE symbols_arg[1]
    IN  IF symbols = <<>>
        THEN [raised |-> FALSE, value |-> <<>>, cache |-> cache, ts |-> ts, log |-> NoLog]
        ELSE LET r == GetStockDataTry(cache, ts, symbols, batch_ok, answer, t)
             IN  IF r.raised
                 THEN [r EXCEPT !.raised = FALSE, !.value = <<>>]
                 ELSE r

(***************************************************************************)
(* The inputs of the quote specification.                                  *)
(***************************************************************************)
MaxSymbols == 2
Symbols == {"AAPL", "NVDA"}
Changes == {-1, 2}
SymbolLists == UNION {[1..n -> Symbols] : n \in 0..MaxSymbols}
\* what .info gives for one symbol: it raises, or it holds a change
Answers == {[ok |-> FALSE, change |-> 0]} \cup {[ok |-> TRUE, change |-> c] : c \in Changes}
QuoteInstants == {0, CacheDuration - 1, CacheDuration}

\* The clock moves on to a later instant of the set.
Tick(instants) ==
    /\ \E t \in instants : t > now /\ now' = t
    /\ UNCHANGED <<threads, debounce_vars, stock_data_cache, cache_timestamps, chart_data_cache,
                   chart_cache_timestamps, search_cache, call, ret, provider_log, stored,
                   read_keys>>

\* What yfinance does in one call for the symbols asked: yf.Tickers raises, or
\* each position's .info raises or answers.
ProviderBehaviours(to_fetch) ==
    {[batch_ok |-> FALSE, answer |-> <<>>]}
      \cup {[batch_ok |-> TRUE, answer |-> a] : a \in [1..Len(to_fetch) -> Answers]}

GetStockDataCall ==
    \E l \in SymbolLists :
      \E p \in ProviderBehaviours(SymbolsToFetch(stock_data_cache, cache_timestamps, l, now)) :
        LET r == GetStockData(stock_data_cache, cache_timestamps, Some(l),
                              p.batch_ok, p.answer, now)
        IN  /\ stock_data_cache' = r.cache
            /\ cache_timestamps' = r.ts
            /\ call' = [op |-> "get_stock_data", symbols |-> l]
            /\ ret' = [raised |-> r.raised, value |-> r.value]
            /\ provider_log' = r.log
            /\ UNCHANGED <<threads, debounce_vars, now, chart_vars, search_cache, stored, read_keys>>

Init ==
    /\ now = 0
    /\ stock_data_cache = EmptyDict
    /\ cache_timestamps = EmptyDict
    /\ chart_data_cache = EmptyDict
    /\ chart_cache_timestamps = EmptyDict
    /\ search_cache = <<>>
    /\ call = [op |-> "init"]
    /\ ret = [raised |-> FALSE, value |-> <<>>]
    /\ provider_log = NoLog
    /\ stored = {}
    /\ read_keys = {}
    /\ debounce_tasks = EmptyDict
    /\ calls = <<>>
    /\ threads = <<>>

QuoteTick == Tick(QuoteInstants)

QuoteNext == GetStockDataCall \/ QuoteTick

SpecQuote == Init /\ [][QuoteNext]_vars

(***************************************************************************)
(* The chart cache and get_chart_data.                                     *)
(***************************************************************************)
\* f"{symbol}_{period}", lines 205, 330 (and main.py 143, 170, 192)
ChartCacheKey(symbol, period) == symbol \o <<"_">> \o period

\* _is_chart_cache_valid(cache_key)
IsChartCacheValid(ts, cache_key, t) ==
    IF cache_key \notin DOMAIN ts THEN FALSE
    ELSE t - ts[cache_key] < ChartCacheDuration

\* The mutant of _get_chart_from_cache: the cache never answers
GetChartFromCacheNever(cache, ts, cache_key, t) == None

\* _get_chart_from_cache(cache_key)
GetChartFromCache(cache, ts, cache_key, t) ==
    IF IsChartCacheValid(ts, cache_key, t)
    THEN IF cache_key \in DOMAIN cache THEN Some(cache[cache_key]) ELSE None
    ELSE None

\* _store_chart_in_cache(cache_key, data): the two maps after the call
StoreChartInCache(cache, ts, cache_key, data, t) ==
    [cache |-> DictSet(cache, cache_key, data), ts |-> DictSet(ts, cache_key, t)]

\* clear_chart_cache(): the two maps after the call
ClearChartCache == [cache |-> EmptyDict, ts |-> EmptyDict]

P5D == <<"5", "D">>
P1M == <<"1", "M">>
P6M == <<"6", "M">>
P1Y == <<"1", "Y">>
P5Y == <<"5", "Y">>
PMax == <<"M", "a", "x">>

\* constants.py, lines 11-18
CHART_PERIOD_MAPPING ==
    [p \in {P5D, P1M, P6M, P1Y, P5Y, PMax} |->
       CASE p = P5D -> "5d"
         [] p = P1M -> "1mo"
         [] p = P6M -> "6mo"
         [] p = P1Y -> "1y"
         [] p = P5Y -> "5y"
         [] p = PMax -> "max"]

\* CHART_PERIOD_MAPPING.get(period, '1mo')
YfPeriod(period) ==
    IF period \in DOMAIN CHART_PERIOD_MAPPING THEN CHART_PERIOD_MAPPING[period] ELSE "1mo"

\* round(float(close), 2): a close in thousandths to hundredths, the nearest one
\* (the provider's closes of this model are never halfway between two)
Round2(close) == (close + 5) \div 10

\* One row of hist as [date.strftime('%Y-%m-%d'), round(float(row['Close']), 2)];
\* a date is <<year, month, day, hour>>.
ChartRow(row) == <<SubSeq(row.date, 1, 3), Round2(row.close)>>

\* What get_chart_data does when the provider has no rows, lines 218-219
OnEmptyHistory(cache, ts, cache_key, t) ==
    [value |-> <<>>, cache |-> cache, ts |-> ts]

\* The mutant of the except branch: the empty result is cached
OnHistoryErrorStore(cache, ts, cache_key, t) ==
    [value |-> <<>>, cache |-> DictSet(cache, cache_key, <<>>),
     ts |-> DictSet(ts, cache_key, t)]

\* What get_chart_data does when the provider raises, lines 232-234
OnHistoryError(cache, ts, cache_key, t) ==
    [value |-> <<>>, cache |-> cache, ts |-> ts]

\* get_chart_data(symbol, period), lines 193-234.  history is what
\* ticker.history(period=yf_period) does: it raises, or it gives rows.
GetChartData(cache, ts, symbol, period, history, t) ==
    LET cache_key == ChartCacheKey(symbol, period)
        cached_data == GetChartFromCache(cache, ts, cache_key, t)
        yf_period == YfPeriod(period)
        asked(result) == [NoLog EXCEPT !.history =
                            <<[symbol |-> symbol, period |-> yf_period, result |-> result]>>]
    IN  IF cached_data # None
        THEN [value |-> cached_data[1], cache |-> cache, ts |-> ts, log |-> NoLog]
        ELSE IF history.raises
        THEN LET r == OnHistoryError(cache, ts, cache_key, t)
             IN  [value |-> r.value, cache |-> r.cache, ts |-> r.ts, log |-> asked("raise")]
        ELSE IF history.rows = <<>>
        THEN LET r == OnEmptyHistory(cache, ts, cache_key, t)
             IN  [value |-> r.value, cache |-> r.cache, ts |-> r.ts, log |-> asked("empty")]
        ELSE LET chart_data == [i \in 1..Len(history.rows) |-> ChartRow(history.rows[i])]
                 st == StoreChartInCache(cache, ts, cache_key, chart_data, t)
             IN  [value |-> chart_data, cache |-> st.cache, ts |-> st.ts,
                  log |-> asked("data")]

(***************************************************************************)
(* The inputs of the chart specification.                                  *)
(***************************************************************************)
ChartSymbols == {<<"B", "R", "K">>, <<"B", "R", "K", "_", "B">>}
\* a period of the mapping, and a string that is none of its keys
ChartPeriods == {P1M, <<"B", "_", "1", "M">>}
Histories ==
    {[raises |-> TRUE, rows |-> <<>>],
     [raises |-> FALSE, rows |-> <<>>],
     [raises |-> FALSE, rows |-> <<[date |-> <<2024, 1, 2, 16>>, close |-> 12344]>>],
     [raises |-> FALSE, rows |-> <<[date |-> <<2024, 1, 2, 16>>, close |-> 12344],
                                   [date |-> <<2024, 1, 3, 16>>, close |-> 12346]>>]}
ChartInstants == {0, ChartCacheDuration - 1, ChartCacheDuration}

\* The history with one put recorded: the last put of a key replaces the
\* earlier one.  `by` names the call that stored.
Recorded(history, tier, key, value, by, t) ==
    {e \in history : ~(e.tier = tier /\ e.key = key)}
      \cup {[tier |-> tier, key |-> key, at |-> t, value |-> value, by |-> by,
             removed |-> "no"]}

\* The history with the entries of `tier` that are no longer in the cache
\* (keys: the keys the cache holds now) marked removed; how: "cleared" or
\* "evicted".
Removed(history, tier, keys, how) ==
    {IF e.tier = tier /\ e.key \notin keys /\ e.removed = "no"
     THEN [e EXCEPT !.removed = how] ELSE e
       : e \in history}

GetChartDataCall ==
    \E symbol \in ChartSymbols, period \in ChartPeriods, history \in Histories :
      LET r == GetChartData(chart_data_cache, chart_cache_timestamps, symbol, period,
                            history, now)
          cache_key == ChartCacheKey(symbol, period)
      IN  /\ chart_data_cache' = r.cache
          /\ chart_cache_timestamps' = r.ts
          /\ call' = [op |-> "get_chart_data", symbol |-> symbol, period |-> period,
                      at |-> now]
          /\ ret' = [raised |-> FALSE, value |-> r.value]
          /\ provider_log' = r.log
          /\ stored' = IF r.ts # chart_cache_timestamps
                       THEN Recorded(stored, "chart", cache_key, r.cache[cache_key],
                                     <<symbol, period>>, now)
                       ELSE stored
          /\ UNCHANGED <<threads, debounce_vars, now, quote_vars, search_cache, read_keys>>

ClearChartCacheCall ==
    /\ chart_data_cache' = ClearChartCache.cache
    /\ chart_cache_timestamps' = ClearChartCache.ts
    /\ call' = [op |-> "clear_chart_cache"]
    /\ ret' = [raised |-> FALSE, value |-> None]
    /\ provider_log' = NoLog
    /\ stored' = Removed(stored, "chart", {}, "cleared")
    /\ UNCHANGED <<threads, debounce_vars, now, quote_vars, search_cache, read_keys>>

ChartTick == Tick(ChartInstants)

ChartNext == GetChartDataCall \/ ClearChartCacheCall \/ ChartTick

SpecChart == Init /\ [][ChartNext]_vars

(***************************************************************************)
(* The search-result cache.                                                *)
(***************************************************************************)
\* str.upper() on one character: a letter a-z to A-Z, any other unchanged
UpperChar(c) ==
    CASE c = "a" -> "A"
      [] c = "b" -> "B"
      [] c = "c" -> "C"
      [] c = "d" -> "D"
      [] c = "e" -> "E"
      [] c = "f" -> "F"
      [] c = "g" -> "G"
      [] c = "h" -> "H"
      [] c = "i" -> "I"
      [] c = "j" -> "J"
      [] c = "k" -> "K"
      [] c = "l" -> "L"
      [] c = "m" -> "M"
      [] c = "n" -> "N"
      [] c = "o" -> "O"
      [] c = "p" -> "P"
      [] c = "q" -> "Q"
      [] c = "r" -> "R"
      [] c = "s" -> "S"
      [] c = "t" -> "T"
      [] c = "u" -> "U"
      [] c = "v" -> "V"
      [] c = "w" -> "W"
      [] c = "x" -> "X"
      [] c = "y" -> "Y"
      [] c = "z" -> "Z"
      [] OTHER -> c

Upper(str) == [i \in 1..Len(str) |-> UpperChar(str[i])]

\* The position of key in the dict, 0 when it is not a key.
KeyIndex(cache, key) ==
    IF \E i \in 1..Len(cache) : cache[i].key = key
    THEN CHOOSE i \in 1..Len(cache) : cache[i].key = key
    ELSE 0

\* self._search_cache[cache_key] = (results, datetime.now()), line 307: a new
\* key goes to the end of the dict, a key already there keeps its place.
SearchCacheSet(cache, cache_key, results, t) ==
    LET item == [key |-> cache_key, results |-> results, timestamp |-> t]
        i == KeyIndex(cache, cache_key)
    IN  IF i = 0 THEN Append(cache, item) ELSE [cache EXCEPT ![i] = item]

\* The eviction victim, as the mutant that takes the newest entry
NewestKey(cache) ==
    LET i == CHOOSE i \in 1..Len(cache) :
               /\ \A j \in 1..Len(cache) : cache[j].timestamp <= cache[i].timestamp
               /\ \A j \in 1..(i - 1) : cache[j].timestamp < cache[i].timestamp
    IN  cache[i].key

\* min(self._search_cache.keys(), key=lambda k: self._search_cache[k][1]),
\* lines 312-313: the first key, in the dict's order, with the least timestamp
OldestKey(cache) ==
    LET i == CHOOSE i \in 1..Len(cache) :
               /\ \A j \in 1..Len(cache) : cache[j].timestamp >= cache[i].timestamp
               /\ \A j \in 1..(i - 1) : cache[j].timestamp > cache[i].timestamp
    IN  cache[i].key

\* del self._search_cache[oldest_key], line 314
SearchCacheDel(cache, key) == SelectSeq(cache, LAMBDA e : e.key # key)

\* len(self._search_cache) > 100, line 310, as the mutant that is late by one
OverLimitLate(cache, limit) == Len(cache) > limit + 1

\* len(self._search_cache) > 100, line 310; limit stands for the literal 100
OverLimit(cache, limit) == Len(cache) > limit

\* cache_search_results(search_term, results), lines 298-314: the dict after
\* the call
CacheSearchResults(cache, search_term, results, t, limit) ==
    LET cache_key == Upper(search_term)
        cache1 == SearchCacheSet(cache, cache_key, results, t)
    IN  IF OverLimit(cache1, limit)
        THEN SearchCacheDel(cache1, OldestKey(cache1))
        ELSE cache1

\* get_cached_search_results, as the mutant that refreshes the entry it reads
\* (access-time LRU: the entry gets the time of the read and moves to the end
\* of the dict)
GetCachedSearchResultsTouch(cache, search_term, t) ==
    LET cache_key == Upper(search_term)
        i == KeyIndex(cache, cache_key)
    IN  IF i # 0 /\ t - cache[i].timestamp < SearchCacheDuration
        THEN [value |-> Some(cache[i].results),
              cache |-> Append(SearchCacheDel(cache, cache_key),
                               [cache[i] EXCEPT !.timestamp = t])]
        ELSE [value |-> None, cache |-> cache]

\* get_cached_search_results(search_term), lines 281-296: what it returns and
\* the dict after the call
GetCachedSearchResults(cache, search_term, t) ==
    LET cache_key == Upper(search_term)
        i == KeyIndex(cache, cache_key)
    IN  IF i # 0
        THEN IF t - cache[i].timestamp < SearchCacheDuration
             THEN [value |-> Some(cache[i].results), cache |-> cache]
             ELSE [value |-> None, cache |-> cache]
        ELSE [value |-> None, cache |-> cache]

KeysOf(cache) == {cache[i].key : i \in 1..Len(cache)}

(***************************************************************************)
(* The inputs of the search specification.  The capacity of the cache, the *)
(* literal 100 of line 310, is SearchCacheLimit entries here; SpecFill     *)
(* below runs the same operators at 100.                                   *)
(***************************************************************************)
SearchCacheLimit == 3
SearchTerms == {<<"a">>, <<"A">>, <<"b">>, <<"c">>, <<"d">>, <<"e">>}
SearchResults == {<<"AAPL">>}
SearchInstants == {0, SearchCacheDuration}

CacheSearchResultsCall ==
    \E search_term \in SearchTerms, results \in SearchResults :
      LET after == CacheSearchResults(search_cache, search_term, results, now,
                                      SearchCacheLimit)
      IN  /\ search_cache' = after
          /\ call' = [op |-> "cache_search_results", term |-> search_term,
                      results |-> results, at |-> now,
                      dropped |-> KeysOf(search_cache) \ KeysOf(after)]
          /\ ret' = [raised |-> FALSE, value |-> None]
          /\ read_keys' = read_keys \ {Upper(search_term)}
          /\ UNCHANGED <<threads, debounce_vars, now, quote_vars, chart_vars, provider_log, stored>>

GetCachedSearchResultsCall ==
    \E search_term \in SearchTerms :
      LET r == GetCachedSearchResults(search_cache, search_term, now)
      IN  /\ search_cache' = r.cache
          /\ call' = [op |-> "get_cached_search_results", term |-> search_term,
                      at |-> now]
          /\ ret' = [raised |-> FALSE, value |-> r.value]
          /\ read_keys' = IF r.value # None
                          THEN read_keys \cup {Upper(search_term)}
                          ELSE read_keys
          /\ UNCHANGED <<threads, debounce_vars, now, quote_vars, chart_vars, provider_log, stored>>

SearchTick == Tick(SearchInstants)

SearchNext == CacheSearchResultsCall \/ GetCachedSearchResultsCall \/ SearchTick

SpecSearch == Init /\ [][SearchNext]_vars

(***************************************************************************)
(* SpecFill: distinct search terms cached one after the other, at the      *)
(* capacity of the source.                                                 *)
(***************************************************************************)
SEARCH_CACHE_MAX == 100
MaxFill == 101
FillLetters == <<"a", "b", "c", "d", "e", "f", "g", "h", "i", "j", "k">>
\* the i-th term: "aa", "ab", ..., "ak", "ba", ...
FillTerm(i) ==
    <<FillLetters[((i - 1) \div Len(FillLetters)) + 1],
      FillLetters[((i - 1) % Len(FillLetters)) + 1]>>
FillInstants == {0, SearchCacheDuration}

\* How many terms have been cached: the newest key is the last of the dict.
Filled ==
    IF search_cache = <<>> THEN 0
    ELSE CHOOSE i \in 1..MaxFill : Upper(FillTerm(i)) = search_cache[Len(search_cache)].key

FillCacheSearchResultsCall ==
    /\ Filled < MaxFill
    /\ LET search_term == FillTerm(Filled + 1)
           results == <<"AAPL">>
           after == CacheSearchResults(search_cache, search_term, results, now,
                                       SEARCH_CACHE_MAX)
       IN  /\ search_cache' = after
           /\ call' = [op |-> "cache_search_results", term |-> search_term,
                       results |-> results, at |-> now,
                       dropped |-> KeysOf(search_cache) \ KeysOf(after)]
           /\ ret' = [raised |-> FALSE, value |-> None]
           /\ UNCHANGED <<threads, debounce_vars, now, quote_vars, chart_vars, provider_log, stored, read_keys>>

FillTick == Tick(FillInstants)

FillNext == FillCacheSearchResultsCall \/ FillTick

SpecFill == Init /\ [][FillNext]_vars

(***************************************************************************)
(* SpecTtl: put and get of each of the three caches under a moving clock.  *)
(* The caches share nothing but the clock; a behaviour exercises one of    *)
(* them, the tier of its first put.                                        *)
(***************************************************************************)
TtlOf(tier) ==
    CASE tier = "quote" -> CacheDuration
      [] tier = "chart" -> ChartCacheDuration
      [] tier = "search" -> SearchCacheDuration

TtlInstants(tier) == {0, TtlOf(tier) - 1, TtlOf(tier)}

\* No put of another tier has been made.
TierFree(tier) == \A e \in stored : e.tier = tier

TtlSearchTerms == {<<"a">>, <<"b">>, <<"c">>, <<"d">>}
TtlSearchResults == {<<"AAPL">>}
ChartKeys == {ChartCacheKey(symbol, period) : symbol \in ChartSymbols, period \in ChartPeriods}
ChartSeries == {<<<<<<2024, 1, 2>>, 1234>>>>, <<<<<<2024, 1, 2>>, 1235>>>>}

TtlStoreInCache ==
    /\ TierFree("quote")
    /\ \E symbol \in Symbols, change \in Changes :
         LET data == StockData(symbol, [change |-> change])
             st == StoreInCache(stock_data_cache, cache_timestamps, symbol, data, now)
         IN  /\ stock_data_cache' = st.cache
             /\ cache_timestamps' = st.ts
             /\ call' = [op |-> "_store_in_cache", key |-> symbol]
             /\ ret' = [raised |-> FALSE, value |-> None]
             /\ stored' = Recorded(stored, "quote", symbol, data, <<>>, now)
    /\ UNCHANGED <<threads, debounce_vars, now, chart_vars, search_cache, provider_log, read_keys>>

TtlGetFromCache ==
    /\ TierFree("quote")
    /\ \E symbol \in Symbols :
         /\ call' = [op |-> "_get_from_cache", key |-> symbol]
         /\ ret' = [raised |-> FALSE,
                    value |-> GetFromCache(stock_data_cache, cache_timestamps, symbol, now)]
    /\ UNCHANGED <<threads, debounce_vars, now, quote_vars, chart_vars, search_cache, provider_log, stored,
                   read_keys>>

TtlStoreChartInCache ==
    /\ TierFree("chart")
    /\ \E cache_key \in ChartKeys, data \in ChartSeries :
         LET st == StoreChartInCache(chart_data_cache, chart_cache_timestamps,
                                     cache_key, data, now)
         IN  /\ chart_data_cache' = st.cache
             /\ chart_cache_timestamps' = st.ts
             /\ call' = [op |-> "_store_chart_in_cache", key |-> cache_key]
             /\ ret' = [raised |-> FALSE, value |-> None]
             /\ stored' = Recorded(stored, "chart", cache_key, data, <<>>, now)
    /\ UNCHANGED <<threads, debounce_vars, now, quote_vars, search_cache, provider_log, read_keys>>

TtlGetChartFromCache ==
    /\ TierFree("chart")
    /\ \E cache_key \in ChartKeys :
         /\ call' = [op |-> "_get_chart_from_cache", key |-> cache_key]
         /\ ret' = [raised |-> FALSE,
                    value |-> GetChartFromCache(chart_data_cache, chart_cache_timestamps,
                                                cache_key, now)]
    /\ UNCHANGED <<threads, debounce_vars, now, quote_vars, chart_vars, search_cache, provider_log, stored,
                   read_keys>>

TtlClearChartCache ==
    /\ TierFree("chart")
    /\ chart_data_cache' = ClearChartCache.cache
    /\ chart_cache_timestamps' = ClearChartCache.ts
    /\ call' = [op |-> "clear_chart_cache"]
    /\ ret' = [raised |-> FALSE, value |-> None]
    /\ stored' = Removed(stored, "chart", {}, "cleared")
    /\ UNCHANGED <<threads, debounce_vars, now, quote_vars, search_cache, provider_log, read_keys>>

TtlCacheSearchResults ==
    /\ TierFree("search")
    /\ \E search_term \in TtlSearchTerms, results \in TtlSearchResults :
         LET after == CacheSearchResults(search_cache, search_term, results, now,
                                         SearchCacheLimit)
         IN  /\ search_cache' = after
             /\ call' = [op |-> "cache_search_results", key |-> Upper(search_term)]
             /\ ret' = [raised |-> FALSE, value |-> None]
             /\ stored' = Removed(Recorded(stored, "search", Upper(search_term), results,
                                           <<>>, now),
                                  "search", KeysOf(after), "evicted")
    /\ UNCHANGED <<threads, debounce_vars, now, quote_vars, chart_vars, provider_log, read_keys>>

TtlGetCachedSearchResults ==
    /\ TierFree("search")
    /\ \E search_term \in TtlSearchTerms :
         LET r == GetCachedSearchResults(search_cache, search_term, now)
         IN  /\ search_cache' = r.cache
             /\ call' = [op |-> "get_cached_search_results", key |-> Upper(search_term)]
             /\ ret' = [raised |-> FALSE, value |-> r.value]
    /\ UNCHANGED <<threads, debounce_vars, now, quote_vars, chart_vars, provider_log, stored, read_keys>>

TtlTick == \E tier \in {"quote", "chart", "search"} : TierFree(tier) /\ Tick(TtlInstants(tier))

TtlNext ==
    \/ TtlStoreInCache
    \/ TtlGetFromCache
    \/ TtlStoreChartInCache
    \/ TtlGetChartFromCache
    \/ TtlClearChartCache
    \/ TtlCacheSearchResults
    \/ TtlGetCachedSearchResults
    \/ TtlTick

SpecTtl == Init /\ [][TtlNext]_vars

(***************************************************************************)
(* Properties of get_stock_data (specification SpecQuote).                 *)
(***************************************************************************)
\* The step is a call of get_stock_data (the clock stands still in a call).
StockCallStep == now' = now /\ call'.op = "get_stock_data"

\* The quote of symbol s is valid in the cache of the state the step starts in.
ValidAtStart(s) ==
    s \in DOMAIN cache_timestamps /\ now - cache_timestamps[s] < CacheDuration

\* How often symbol s occurs in the list of symbols l.
Count(l, s) == Cardinality({i \in 1..Len(l) : l[i] = s})

SymbolsOf(records) == [i \in 1..Len(records) |-> records[i].symbol]

\* C2: the list get_stock_data returns is ordered by non-increasing 'change',
\* whatever the symbols asked and whichever of them the cache answered.
C2_SortedByChange ==
    call.op = "get_stock_data" =>
      \A i, j \in 1..Len(ret.value) :
        i < j => ret.value[i].change >= ret.value[j].change

\* A call that had to reorder: the first symbol asked came from the cache, the
\* second was fetched with a larger change and is returned first.
C2_Witness ==
    /\ call.op = "get_stock_data"
    /\ Len(call.symbols) = 2
    /\ Len(ret.value) = 2
    /\ Len(provider_log.infos) = 1
    /\ provider_log.infos[1].symbol = call.symbols[2]
    /\ ret.value[1].symbol = call.symbols[2]
    /\ ret.value[2].symbol = call.symbols[1]
    /\ ret.value[1].change > ret.value[2].change

\* C3: when yfinance fails for some symbols of the miss batch, every miss is
\* still asked for once and in order (nothing retried, nothing skipped), the
\* result holds the hits and the misses that answered and no other record,
\* and the call returns a list without raising.
C3_PartialFailure ==
    [][StockCallStep =>
        LET symbols == call'.symbols
            misses == SelectSeq(symbols, LAMBDA s : ~ValidAtStart(s))
            hits == SelectSeq(symbols, LAMBDA s : ValidAtStart(s))
            log == provider_log'
            answered == SelectSeq(log.infos, LAMBDA a : a.ok)
        IN  /\ ret'.raised = FALSE
            /\ \A i \in 1..Len(ret'.value) : ret'.value[i].symbol \in Symbols
            /\ (log.batches # <<>> /\ log.batches[1].ok) =>
                 /\ SymbolsOf(log.infos) = misses
                 /\ \A s \in Symbols :
                      Count(SymbolsOf(ret'.value), s)
                        = Count(hits, s) + Count(SymbolsOf(answered), s)
      ]_vars

\* A call in which the first miss failed and the second was still fetched and
\* is the only record returned.
C3_Witness ==
    /\ call.op = "get_stock_data"
    /\ Len(provider_log.infos) = 2
    /\ ~provider_log.infos[1].ok
    /\ provider_log.infos[2].ok
    /\ provider_log.infos[1].symbol # provider_log.infos[2].symbol
    /\ Len(ret.value) = 1
    /\ ret.value[1].symbol = provider_log.infos[2].symbol

\* C4: get_stock_data asks yfinance for no symbol whose quote is valid when the
\* call starts, makes one batched request for the misses and none without a
\* miss (an empty list returns the empty list), and every quote it fetched is
\* in the quote cache afterwards with the time of the call.
C4_OnlyMissesFetched ==
    [][StockCallStep =>
        LET symbols == call'.symbols
            misses == SelectSeq(symbols, LAMBDA s : ~ValidAtStart(s))
            log == provider_log'
        IN  /\ Len(log.batches) <= 1
            /\ \A b \in 1..Len(log.batches) :
                 \A i \in 1..Len(log.batches[b].symbols) :
                   ~ValidAtStart(log.batches[b].symbols[i])
            /\ \A i \in 1..Len(log.infos) : ~ValidAtStart(log.infos[i].symbol)
            /\ misses = <<>> => log.batches = <<>> /\ log.infos = <<>>
            /\ misses # <<>> => Len(log.batches) = 1 /\ log.batches[1].symbols = misses
            /\ symbols = <<>> => ret'.value = <<>>
            /\ \A i \in 1..Len(log.infos) :
                 log.infos[i].ok =>
                   LET s == log.infos[i].symbol
                   IN  /\ s \in DOMAIN cache_timestamps'
                       /\ cache_timestamps'[s] = now'
                       /\ s \in DOMAIN stock_data_cache'
                       /\ \E k \in 1..Len(ret'.value) : ret'.value[k] = stock_data_cache'[s]
      ]_vars

\* A call, later than the first instant, that the cache answered in part: one
\* record came from the cache, the other was fetched and written back.
C4_Witness ==
    /\ call.op = "get_stock_data"
    /\ now > 0
    /\ Len(ret.value) = 2
    /\ Len(provider_log.batches) = 1
    /\ Len(provider_log.batches[1].symbols) = 1
    /\ Len(provider_log.infos) = 1
    /\ provider_log.infos[1].ok
    /\ cache_timestamps[provider_log.infos[1].symbol] = now
    /\ \E s \in DOMAIN cache_timestamps : cache_timestamps[s] < now

\* C5 (as claimed): the result holds the cached quote of every symbol asked
\* that was valid in the cache when the call started, whatever yfinance does.
C5_HitsAlwaysReturned ==
    [][StockCallStep =>
        \A i \in 1..Len(call'.symbols) :
          LET s == call'.symbols[i]
          IN  ValidAtStart(s) =>
                \E k \in 1..Len(ret'.value) : ret'.value[k] = stock_data_cache[s]
      ]_vars

(***************************************************************************)
(* Properties of get_chart_data (specification SpecChart).                 *)
(***************************************************************************)
\* The step is a call of get_chart_data.
ChartCallStep == now' = now /\ call'.op = "get_chart_data"

\* C6 (as claimed): when the provider had no data for (symbol, period), the
\* next get_chart_data for the same pair within the chart TTL returns the
\* empty series without another provider request.
C6_EmptySeriesCached ==
    [][(/\ ChartCallStep
        /\ call.op = "get_chart_data"
        /\ call.symbol = call'.symbol
        /\ call.period = call'.period
        /\ provider_log.history # <<>>
        /\ provider_log.history[1].result = "empty"
        /\ now - call.at < ChartCacheDuration)
       => (provider_log'.history = <<>> /\ ret'.value = <<>>)
      ]_vars

\* C7 (as claimed): a series get_chart_data returns from the cache was stored
\* by a call with the same (symbol, period).
C7_KeyedByPair ==
    [][(ChartCallStep /\ provider_log'.history = <<>>)
       => \E e \in stored' :
            /\ e.tier = "chart"
            /\ e.removed = "no"
            /\ e.by = <<call'.symbol, call'.period>>
            /\ e.value = ret'.value
      ]_vars

(***************************************************************************)
(* Properties of the three caches (specification SpecTtl).                 *)
(***************************************************************************)
GetOps == {"_get_from_cache", "_get_chart_from_cache", "get_cached_search_results"}

TierOfOp(op) ==
    CASE op \in {"_get_from_cache", "_store_in_cache"} -> "quote"
      [] op \in {"_get_chart_from_cache", "_store_chart_in_cache", "clear_chart_cache"} -> "chart"
      [] op \in {"get_cached_search_results", "cache_search_results"} -> "search"

\* The step is a get of one of the caches.
TtlGetStep == now' = now /\ call'.op \in GetOps

\* C1 (as claimed): after a put of k at t0 and no later put of k, a get of k at
\* t returns the stored value iff t - t0 < ttl, and absent otherwise or when k
\* was never stored; it raises nothing.  (Read with clear_chart_cache counted
\* as ending the put: only an entry that was not cleared is expected back.)
C1_TtlExpiryAsClaimed ==
    [][TtlGetStep =>
        LET tier == TierOfOp(call'.op)
            fresh == {e \in stored : /\ e.tier = tier
                                     /\ e.key = call'.key
                                     /\ e.removed # "cleared"
                                     /\ now - e.at < TtlOf(tier)}
        IN  /\ ret'.raised = FALSE
            /\ \A e \in fresh : ret'.value = Some(e.value)
            /\ fresh = {} => ret'.value = None
      ]_vars

\* C1 (amended): the same, for an entry that has not been removed since the
\* put (evicted from the search cache, cleared from the chart cache): a get
\* returns the stored value iff t - t0 < ttl and the entry was not removed.
C1_TtlExpiry ==
    [][TtlGetStep =>
        LET tier == TierOfOp(call'.op)
            fresh == {e \in stored : /\ e.tier = tier
                                     /\ e.key = call'.key
                                     /\ e.removed = "no"
                                     /\ now - e.at < TtlOf(tier)}
        IN  /\ ret'.raised = FALSE
            /\ \A e \in fresh : ret'.value = Some(e.value)
            /\ fresh = {} => ret'.value = None
      ]_vars

\* A get exactly ttl after the put of its key, the entry still in the cache,
\* that returned absent.
C1_Witness ==
    /\ call.op \in GetOps
    /\ ret.value = None
    /\ \E e \in stored : /\ e.tier = TierOfOp(call.op)
                         /\ e.key = call.key
                         /\ e.removed = "no"
                         /\ now - e.at = TtlOf(e.tier)

(***************************************************************************)
(* Properties of the search-result cache (SpecSearch, SpecFill).           *)
(***************************************************************************)
\* C8: after every cache_search_results call, whatever the keys, the cache
\* holds at most its capacity of entries (one per key).
C8_CapacityInvariant ==
    /\ Len(search_cache) <= SearchCacheLimit
    /\ Cardinality(KeysOf(search_cache)) = Len(search_cache)

\* A call that evicted and left the cache full.
C8_Witness ==
    /\ call.op = "cache_search_results"
    /\ call.dropped # {}
    /\ Len(search_cache) = SearchCacheLimit

\* The keys a step removes from the search cache.
Dropped == KeysOf(search_cache) \ KeysOf(search_cache')

\* Entry k of the search cache is stored no later than any other entry.
IsOldest(k) ==
    \A i \in 1..Len(search_cache) :
      search_cache[KeyIndex(search_cache, k)].timestamp <= search_cache[i].timestamp

\* The step caches a key that is new to a cache holding `limit` entries.
InsertWhenFull(limit) ==
    /\ now' = now
    /\ call'.op = "cache_search_results"
    /\ Len(search_cache) = limit
    /\ Upper(call'.term) \notin KeysOf(search_cache)

\* C9: caching a new key in a full cache (100 entries) removes exactly one
\* entry, one with the least timestamp, and keeps the new one; after 101
\* distinct keys cached in order the cache holds 100 entries, the first key
\* is absent and every later key is present.
C9_EvictionVictim ==
    /\ [][InsertWhenFull(SEARCH_CACHE_MAX) =>
            /\ Cardinality(Dropped) = 1
            /\ \A k \in Dropped : IsOldest(k)
            /\ Len(search_cache') = SEARCH_CACHE_MAX
            /\ Upper(call'.term) \in KeysOf(search_cache')
         ]_vars
    /\ [](Filled = SEARCH_CACHE_MAX + 1 =>
            /\ Len(search_cache) = SEARCH_CACHE_MAX
            /\ Upper(FillTerm(1)) \notin KeysOf(search_cache)
            /\ \A i \in 2..(SEARCH_CACHE_MAX + 1) :
                 Upper(FillTerm(i)) \in KeysOf(search_cache))

\* The 101st key has just been cached and the first one evicted.
C9_Witness ==
    /\ Filled = SEARCH_CACHE_MAX + 1
    /\ call.op = "cache_search_results"
    /\ call.dropped = {Upper(FillTerm(1))}
    /\ Len(search_cache) = SEARCH_CACHE_MAX

\* C10: get_cached_search_results changes no timestamp and no other state of
\* the caches, and the entry evicted is one with the least stored timestamp,
\* read or not: reading an entry does not keep it in the cache.
C10_EvictionByInsertionTime ==
    [][/\ (now' = now /\ call'.op = "get_cached_search_results") =>
            /\ search_cache' = search_cache
            /\ UNCHANGED <<threads, debounce_vars, quote_vars, chart_vars>>
       /\ InsertWhenFull(SearchCacheLimit) =>
            /\ Cardinality(Dropped) = 1
            /\ \A k \in Dropped : IsOldest(k)
            /\ \A k \in KeysOf(search_cache) :
                 (\A j \in KeysOf(search_cache) \ {k} :
                    search_cache[KeyIndex(search_cache, k)].timestamp
                      < search_cache[KeyIndex(search_cache, j)].timestamp)
                 => Dropped = {k}
      ]_vars

\* An entry that was read is evicted while an entry that was never read, and
\* was stored later, stays.
C10_Witness ==
    /\ call.op = "cache_search_results"
    /\ call.dropped # {}
    /\ call.dropped \subseteq read_keys
    /\ \E i \in 1..Len(search_cache) :
         /\ search_cache[i].key \notin read_keys
         /\ search_cache[i].key # Upper(call.term)

(***************************************************************************)
(* The suggestion engine, utils/helpers.py.  A search term and a ticker    *)
(* are sequences of characters here, since the function takes them apart.  *)
(***************************************************************************)
Range(s) == {s[i] : i \in DOMAIN s}

\* The characters of a ticker of POPULAR_TICKERS
Spell ==
    [t \in Range(POPULAR_TICKERS) |->
       CASE t = "AAPL" -> <<"A", "A", "P", "L">>
         [] t = "GOOGL" -> <<"G", "O", "O", "G", "L">>
         [] t = "GOOG" -> <<"G", "O", "O", "G">>
         [] t = "AMZN" -> <<"A", "M", "Z", "N">>
         [] t = "MSFT" -> <<"M", "S", "F", "T">>
         [] t = "NVDA" -> <<"N", "V", "D", "A">>
         [] t = "META" -> <<"M", "E", "T", "A">>
         [] t = "NFLX" -> <<"N", "F", "L", "X">>
         [] t = "ADBE" -> <<"A", "D", "B", "E">>
         [] t = "CRM" -> <<"C", "R", "M">>
         [] t = "ORCL" -> <<"O", "R", "C", "L">>
         [] t = "IBM" -> <<"I", "B", "M">>
         [] t = "INTC" -> <<"I", "N", "T", "C">>
         [] t = "AMD" -> <<"A", "M", "D">>
         [] t = "QCOM" -> <<"Q", "C", "O", "M">>
         [] t = "AVGO" -> <<"A", "V", "G", "O">>
         [] t = "CSCO" -> <<"C", "S", "C", "O">>
         [] t = "PYPL" -> <<"P", "Y", "P", "L">>
         [] t = "SQ" -> <<"S", "Q">>
         [] t = "UBER" -> <<"U", "B", "E", "R">>
         [] t = "LYFT" -> <<"L", "Y", "F", "T">>
         [] t = "SNAP" -> <<"S", "N", "A", "P">>
         [] t = "TWTR" -> <<"T", "W", "T", "R">>
         [] t = "ZOOM" -> <<"Z", "O", "O", "M">>
         [] t = "TSLA" -> <<"T", "S", "L", "A">>
         [] t = "F" -> <<"F">>
         [] t = "GM" -> <<"G", "M">>
         [] t = "NIO" -> <<"N", "I", "O">>]

\* POPULAR_TICKERS, each ticker as its characters, in the list's order
PopularTickers == [i \in DOMAIN POPULAR_TICKERS |-> Spell[POPULAR_TICKERS[i]]]

\* The code points of the characters of this model in ascending order: Python
\* compares strings by code point, upper case before lower case
CodePoints ==
    <<"A", "B", "C", "D", "E", "F", "G", "H", "I", "J", "K", "L", "M", "N", "O", "P",
      "Q", "R", "S", "T", "U", "V", "W", "X", "Y", "Z",
      "a", "b", "c", "d", "e", "f", "g", "h", "i", "j", "k", "l", "m", "n", "o", "p",
      "q", "r", "s", "t", "u", "v", "w", "x", "y", "z">>

Ord(c) == CHOOSE i \in DOMAIN CodePoints : CodePoints[i] = c

\* a < b for two strings, as Python compares them
StrLess(a, b) ==
    \/ /\ Len(a) < Len(b)
       /\ \A i \in 1..Len(a) : a[i] = b[i]
    \/ \E i \in 1..Len(a) :
         /\ i <= Len(b)
         /\ \A j \in 1..(i - 1) : a[j] = b[j]
         /\ Ord(a[i]) < Ord(b[i])

\* sorted(list) of strings, by insertion; equal strings keep their order
StrInsert(s, x) ==
    LET after == {i \in 1..Len(s) : StrLess(x, s[i])}
        k == IF after = {} THEN Len(s) + 1
             ELSE CHOOSE i \in after : \A j \in after : i <= j
    IN  SubSeq(s, 1, k - 1) \o <<x>> \o SubSeq(s, k, Len(s))

RECURSIVE SortedStrings(_)
SortedStrings(s) ==
    IF s = <<>> THEN <<>>
    ELSE StrInsert(SortedStrings(SubSeq(s, 1, Len(s) - 1)), s[Len(s)])

\* _sorted_tickers = sorted(POPULAR_TICKERS), line 12
SortedTickers == SortedStrings(PopularTickers)

\* The literal 10 of get_ticker_suggestions (lines 18, 33, 40, 42, 48)
SUGGESTION_LIMIT == 10

\* s[:n]
Take(s, n) == SubSeq(s, 1, IF Len(s) < n THEN Len(s) ELSE n)

\* ticker.startswith(search_term), as the mutant that accepts the term anywhere
StartsWithAnywhere(ticker, search_term) ==
    \E k \in 0..(Len(ticker) - Len(search_term)) :
      \A i \in 1..Len(search_term) : ticker[k + i] = search_term[i]

\* ticker.startswith(search_term), line 35
StartsWith(ticker, search_term) ==
    /\ Len(search_term) <= Len(ticker)
    /\ \A i \in 1..Len(search_term) : ticker[i] = search_term[i]

\* search_term in ticker, line 44
Contains(ticker, search_term) ==
    \E k \in 0..(Len(ticker) - Len(search_term)) :
      \A i \in 1..Len(search_term) : ticker[k + i] = search_term[i]

\* ticker not in added, as the mutant that never finds the ticker added
NotAddedAlways(ticker, suggestions) == TRUE

\* ticker not in added, lines 35 and 44: added holds what suggestions holds
NotAdded(ticker, suggestions) == ticker \notin Range(suggestions)

\* The loops of lines 32-37 (pass = "prefix") and 41-46 (pass = "contains")
\* from the i-th ticker on: suggestions after the loop
RECURSIVE SuggestLoop(_, _, _, _)
SuggestLoop(pass, search_term, i, suggestions) ==
    IF i > Len(SortedTickers) THEN suggestions
    ELSE IF Len(suggestions) >= SUGGESTION_LIMIT THEN suggestions
    ELSE LET ticker == SortedTickers[i]
             match == IF pass = "prefix" THEN StartsWith(ticker, search_term)
                      ELSE Contains(ticker, search_term)
         IN  IF match /\ NotAdded(ticker, suggestions)
             THEN SuggestLoop(pass, search_term, i + 1, Append(suggestions, ticker))
             ELSE SuggestLoop(pass, search_term, i + 1, suggestions)

\* if not search_term: return POPULAR_TICKERS[:10], as the mutant that takes
\* them from the sorted list
OnEmptyTermSorted == Take(SortedTickers, SUGGESTION_LIMIT)

\* if not search_term: return POPULAR_TICKERS[:10], lines 17-18
OnEmptyTerm == Take(PopularTickers, SUGGESTION_LIMIT)

\* get_ticker_suggestions(search_term), lines 15-48
GetTickerSuggestions(search_term) ==
    IF search_term = <<>> THEN OnEmptyTerm
    ELSE LET term == Upper(search_term)
             exact == IF term \in Range(SortedTickers) THEN <<term>> ELSE <<>>
             starts == SuggestLoop("prefix", term, 1, exact)
             contains == IF Len(starts) < SUGGESTION_LIMIT
                         THEN SuggestLoop("contains", term, 1, starts)
                         ELSE starts
         IN  Take(contains, SUGGESTION_LIMIT)

(***************************************************************************)
(* The inputs of the suggestion specification: every term of at most       *)
(* MaxTermLen characters of TermLetters, and every ticker in upper and in  *)
(* lower case.                                                             *)
(***************************************************************************)
MaxTermLen == 2
TermLetters ==
    {"A", "B", "C", "D", "E", "F", "G", "H", "I", "J", "K", "L", "M", "N", "O", "P",
     "Q", "R", "S", "T", "U", "V", "W", "X", "Y", "Z", "a", "n", "v", "d", "x"}

LowerChar(c) ==
    IF Ord(c) <= 26 THEN CodePoints[Ord(c) + 26] ELSE c

Lower(str) == [i \in 1..Len(str) |-> LowerChar(str[i])]

SuggestTerms ==
    UNION {[1..n -> TermLetters] : n \in 0..MaxTermLen}
      \cup Range(PopularTickers)
      \cup {Lower(t) : t \in Range(PopularTickers)}

\* The state in which a caller holds a search term, any of SuggestTerms
InitSuggest ==
    /\ now = 0
    /\ stock_data_cache = EmptyDict
    /\ cache_timestamps = EmptyDict
    /\ chart_data_cache = EmptyDict
    /\ chart_cache_timestamps = EmptyDict
    /\ search_cache = <<>>
    /\ call \in {[op |-> "caller", term |-> t] : t \in SuggestTerms}
    /\ ret = [raised |-> FALSE, value |-> <<>>]
    /\ provider_log = NoLog
    /\ stored = {}
    /\ read_keys = {}
    /\ debounce_tasks = EmptyDict
    /\ calls = <<>>
    /\ threads = <<>>

GetTickerSuggestionsCall ==
    /\ call.op = "caller"
    /\ call' = [op |-> "get_ticker_suggestions", term |-> call.term]
    /\ ret' = [raised |-> FALSE, value |-> GetTickerSuggestions(call.term)]
    /\ UNCHANGED <<threads, debounce_vars, now, quote_vars, chart_vars, search_cache, provider_log, stored,
                   read_keys>>

SuggestNext == GetTickerSuggestionsCall

SpecSuggest == InitSuggest /\ [][SuggestNext]_vars

(***************************************************************************)
(* Claims C11-C13: get_ticker_suggestions.                                 *)
(***************************************************************************)
\* get_ticker_suggestions has returned for a term
Suggested == call.op = "get_ticker_suggestions"

\* p is the beginning of s
IsPrefix(p, s) == Len(p) <= Len(s) /\ SubSeq(s, 1, Len(p)) = p

\* p occurs in s
IsInfix(p, s) == \E a \in 1..(Len(s) + 1), b \in 0..Len(s) : SubSeq(s, a, b) = p

\* The group of a ticker for a term in upper case: 0 the term itself, 1 a
\* ticker that starts with it, 2 one that contains it, 3 no match
Group(ticker, term) ==
    IF ticker = term THEN 0
    ELSE IF IsPrefix(term, ticker) THEN 1
    ELSE IF IsInfix(term, ticker) THEN 2
    ELSE 3

\* C11: for a non-empty term the result holds only matching tickers, the exact
\* match first when the term is a ticker, then the tickers that start with the
\* term, then those that merely contain it; inside the prefix group and inside
\* the substring group the tickers are in ascending (pre-sorted) order; and a
\* result shorter than the limit leaves no matching ticker out.
C11_SuggestionRanking ==
    (Suggested /\ call.term # <<>>) =>
      LET r == ret.value
          term == Upper(call.term)
      IN  /\ \A i \in 1..Len(r) : r[i] \in Range(PopularTickers) /\ Group(r[i], term) <= 2
          /\ term \in Range(PopularTickers) => (Len(r) >= 1 /\ r[1] = term)
          /\ \A i, j \in 1..Len(r) :
               i < j => /\ Group(r[i], term) <= Group(r[j], term)
                        /\ (Group(r[i], term) = Group(r[j], term)) => StrLess(r[i], r[j])
          /\ Len(r) < SUGGESTION_LIMIT =>
               \A t \in Range(PopularTickers) : Group(t, term) <= 2 => t \in Range(r)

\* A term has been answered with several tickers that start with it followed
\* by several that merely contain it.
C11_Witness ==
    /\ Suggested
    /\ call.term # <<>>
    /\ \E i, j, k, l \in 1..Len(ret.value) :
         /\ i < j /\ j < k /\ k < l
         /\ Group(ret.value[i], Upper(call.term)) = 1
         /\ Group(ret.value[j], Upper(call.term)) = 1
         /\ Group(ret.value[k], Upper(call.term)) = 2
         /\ Group(ret.value[l], Upper(call.term)) = 2

\* C12: for every term the result has at most 10 tickers and none twice.
C12_AtMostTenNoDuplicates ==
    Suggested =>
      /\ Len(ret.value) <= 10
      /\ \A i, j \in 1..Len(ret.value) : i # j => ret.value[i] # ret.value[j]

\* The ticker listed twice in POPULAR_TICKERS is suggested, once, for a term
\* that it starts with.
C12_Witness ==
    /\ Suggested
    /\ Upper(call.term) = <<"N">>
    /\ \E i \in 1..Len(ret.value) : ret.value[i] = <<"N", "V", "D", "A">>
    /\ \E i, j \in DOMAIN POPULAR_TICKERS : i # j /\ POPULAR_TICKERS[i] = POPULAR_TICKERS[j]

\* C13: for the empty term the result is the first 10 entries of
\* POPULAR_TICKERS in the order of that list.
C13_EmptyTermPopular ==
    (Suggested /\ call.term = <<>>) =>
      ret.value = << <<"A", "A", "P", "L">>, <<"G", "O", "O", "G", "L">>,
                     <<"G", "O", "O", "G">>, <<"A", "M", "Z", "N">>,
                     <<"M", "S", "F", "T">>, <<"N", "V", "D", "A">>,
                     <<"M", "E", "T", "A">>, <<"N", "F", "L", "X">>,
                     <<"A", "D", "B", "E">>, <<"C", "R", "M">> >>

\* The empty term has been answered with 10 tickers that are not in
\* alphabetical order.
C13_Witness ==
    /\ Suggested
    /\ call.term = <<>>
    /\ Len(ret.value) = 10
    /\ \E i \in 1..9 : StrLess(ret.value[i + 1], ret.value[i])

(***************************************************************************)
(* debounced_search, lines 249-279, on the asyncio event loop.  A call is  *)
(* a coroutine that runs to `await task` (lines 260-273) in one step; its  *)
(* task sleeps for `delay` and then runs the search (lines 265-267) in one *)
(* step of the loop; the call is resumed by a later step of the loop, with *)
(* the task's result or with CancelledError (lines 274-279).  Between the  *)
(* step that finishes a task and the step that resumes its call the loop   *)
(* runs whatever else is ready, another debounced_search call included.    *)
(* calls[i] is the i-th call made, with its task:                          *)
(*   key, delay, at    the search term, the delay and the time of the call *)
(*   task              "pending", "done" or "cancelled"                    *)
(*   result            what the task returned, once done                   *)
(*   state             "awaiting" or "returned"                            *)
(*   value, raised     what the call returned and whether it raised        *)
(***************************************************************************)
\* del d[k]
DictDel(d, k) == [x \in DOMAIN d \ {k} |-> d[x]]

\* task.cancel(), as the mutant that leaves the task alone
CancelNothing(c) == c

\* task.cancel(), line 262: a task that has not finished is cancelled, its
\* coroutine never gets past the sleep; a finished task is left as it is
Cancel(c) == IF c.task = "pending" THEN [c EXCEPT !.task = "cancelled"] ELSE c

\* Lines 260-270: the tasks and the calls after a call has reached `await task`
DebouncedSearch(tasks, cs, search_term, delay, t) ==
    LET cs1 == IF search_term \in DOMAIN tasks
               THEN [cs EXCEPT ![tasks[search_term]] = Cancel(@)]
               ELSE cs
        task == [key |-> search_term, delay |-> delay, at |-> t, task |-> "pending",
                 result |-> <<>>,
                 state |-> "awaiting", value |-> <<>>, raised |-> FALSE]
    IN  [tasks |-> DictSet(tasks, search_term, Len(cs) + 1), calls |-> Append(cs1, task)]

\* await asyncio.sleep(delay) lets the task go on at time t, line 266
SleepOver(c, t) == t >= c.at + c.delay

\* The search terms of the debounce specification
DebounceTerms == {<<"g">>, <<"N", "V">>}

\* StockService.get_ticker_suggestions(search_term), lines 236-247, which
\* hands the term to the helper: its value for each term of DebounceTerms
TickerSuggestions == [t \in DebounceTerms |-> GetTickerSuggestions(t)]

\* delayed_search() after the sleep, line 267: the task ends with the
\* suggestions for its term
DelayedSearch(c) ==
    [c EXCEPT !.task = "done", !.result = TickerSuggestions[c.key]]

\* The clean-up of lines 275-276, as the mutant that deletes nothing
CleanUpNothing(tasks, search_term) == tasks

\* Lines 275-276: if search_term in self._debounce_tasks: del ...
CleanUp(tasks, search_term) ==
    IF search_term \in DOMAIN tasks THEN DictDel(tasks, search_term) ELSE tasks

\* except asyncio.CancelledError, as the mutant that lets the error out
OnCancelledErrorRaise(c) ==
    [c EXCEPT !.state = "returned", !.value = <<>>, !.raised = TRUE]

\* except asyncio.CancelledError: return [], lines 278-279
OnCancelledError(c) ==
    [c EXCEPT !.state = "returned", !.value = <<>>, !.raised = FALSE]

\* Lines 272-279: the tasks and the calls after call i has gone on from
\* `await task`, its task being finished or cancelled
DebouncedSearchResume(tasks, cs, i) ==
    IF cs[i].task = "done"
    THEN [tasks |-> CleanUp(tasks, cs[i].key),
          calls |-> [cs EXCEPT ![i].state = "returned", ![i].value = cs[i].result]]
    ELSE [tasks |-> tasks, calls |-> [cs EXCEPT ![i] = OnCancelledError(@)]]

\* get_cache_stats()['active_debounce_tasks'], line 358
ActiveDebounceTasks(tasks) == Cardinality(DOMAIN tasks)

(***************************************************************************)
(* The inputs of the debounce specification: at most MaxCalls calls, for   *)
(* the terms of DebounceTerms, with a delay of DebounceDelays seconds,     *)
(* made early enough for the delay to end by the last instant.             *)
(***************************************************************************)
MaxCalls == 3
DebounceDelays == {1, 2}
DebounceInstants == {0, 1, 2, 3}

DebouncedSearchCall ==
    \E search_term \in DebounceTerms, delay \in DebounceDelays :
      LET r == DebouncedSearch(debounce_tasks, calls, search_term, delay, now)
      IN  /\ Len(calls) < MaxCalls
          /\ \E t \in DebounceInstants : t >= now + delay
          /\ debounce_tasks' = r.tasks
          /\ calls' = r.calls
          /\ call' = [op |-> "debounced_search", id |-> Len(calls) + 1]
          /\ ret' = [raised |-> FALSE, value |-> None]
          /\ UNCHANGED <<threads, now, quote_vars, chart_vars, search_cache, provider_log,
                         stored, read_keys>>

\* The loop runs the task of call i, whose sleep is over
DelayedSearchStep(i) ==
    /\ calls[i].task = "pending"
    /\ SleepOver(calls[i], now)
    /\ calls' = [calls EXCEPT ![i] = DelayedSearch(@)]
    /\ call' = [op |-> "delayed_search", id |-> i]
    /\ ret' = [raised |-> FALSE, value |-> calls'[i].result]
    /\ UNCHANGED <<threads, now, quote_vars, chart_vars, search_cache, provider_log, stored,
                   read_keys, debounce_tasks>>

\* The loop resumes call i, whose task is finished or cancelled
DebouncedSearchReturn(i) ==
    LET r == DebouncedSearchResume(debounce_tasks, calls, i)
    IN  /\ calls[i].state = "awaiting"
        /\ calls[i].task # "pending"
        /\ debounce_tasks' = r.tasks
        /\ calls' = r.calls
        /\ call' = [op |-> "debounced_search returns", id |-> i]
        /\ ret' = [raised |-> r.calls[i].raised, value |-> r.calls[i].value]
        /\ UNCHANGED <<threads, now, quote_vars, chart_vars, search_cache, provider_log,
                       stored, read_keys>>

DebounceTick == Tick(DebounceInstants)

LoopStep == \E i \in 1..Len(calls) : DelayedSearchStep(i) \/ DebouncedSearchReturn(i)

DebounceNext == DebouncedSearchCall \/ LoopStep \/ DebounceTick

SpecDebounce == Init /\ [][DebounceNext]_vars

\* The event loop keeps running what is ready (a task whose sleep is over, a
\* call whose task has ended) and the clock keeps going
SpecDebounceFair == SpecDebounce /\ WF_vars(LoopStep) /\ WF_vars(DebounceTick)

(***************************************************************************)
(* Claims C14-C18: debounced_search.                                       *)
(***************************************************************************)
\* The calls made for a key, and the one made just before call j for its key
KeyCalls(k) == {i \in 1..Len(calls) : calls[i].key = k}

Previous(j) == {i \in KeyCalls(calls[j].key) :
                  i < j /\ \A m \in KeyCalls(calls[j].key) : m < j => m <= i}

\* Every call for k but the first arrived before the delay of the call before
\* it had elapsed.
Burst(k) ==
    \A j \in KeyCalls(k) : \A i \in Previous(j) :
      calls[j].at < calls[i].at + calls[i].delay

LastCall(k) == CHOOSE i \in KeyCalls(k) : \A j \in KeyCalls(k) : j <= i

AllReturned == \A i \in 1..Len(calls) : calls[i].state = "returned"

\* C14: when the calls for a key each arrive before the delay of the call
\* before has elapsed, no call but the last runs the search (its task is
\* cancelled), the last one has run it once all of them have returned, and no
\* task runs the search before its delay has elapsed since its call.
C14_DebounceCoalescing ==
    /\ [](\A k \in DebounceTerms :
            (KeyCalls(k) # {} /\ Burst(k)) =>
              /\ \A i \in KeyCalls(k) \ {LastCall(k)} :
                   calls[i].task = "cancelled" /\ calls[i].result = <<>>
              /\ (\A i \in KeyCalls(k) : calls[i].state = "returned") =>
                   /\ calls[LastCall(k)].task = "done"
                   /\ calls[LastCall(k)].value = calls[LastCall(k)].result
                   /\ \A i \in KeyCalls(k) \ {LastCall(k)} : calls[i].value = <<>>)
    /\ [][\A i \in 1..Len(calls) :
            (calls[i].task # "done" /\ calls'[i].task = "done") =>
              /\ calls[i].task = "pending"
              /\ now' >= calls[i].at + calls[i].delay
         ]_vars

\* Three calls for one key, each within the delay of the one before, have all
\* returned and the last one has run the search.
C14_Witness ==
    \E k \in DebounceTerms :
      /\ Cardinality(KeyCalls(k)) = 3
      /\ Burst(k)
      /\ \A i \in KeyCalls(k) : calls[i].state = "returned"
      /\ calls[LastCall(k)].task = "done"
      /\ calls[LastCall(k)].value # <<>>

\* C15: each key has at most one pending task, and that task is the one
\* registered in _debounce_tasks for the key.
C15_OneLiveTaskPerKey ==
    \A k \in DebounceTerms :
      LET live == {i \in KeyCalls(k) : calls[i].task = "pending"}
      IN  /\ Cardinality(live) <= 1
          /\ \A i \in live : k \in DOMAIN debounce_tasks /\ debounce_tasks[k] = i

\* C16: a call whose task was cancelled by a newer call for its key returns
\* the empty list and raises nothing, and its task never runs the search.
C16_SupersededReturnsEmpty ==
    /\ [](\A i \in 1..Len(calls) :
            calls[i].task = "cancelled" =>
              /\ calls[i].result = <<>>
              /\ \E j \in KeyCalls(calls[i].key) : j > i
              /\ calls[i].state = "returned" =>
                   calls[i].value = <<>> /\ ~calls[i].raised)
    /\ [][/\ \A i \in 1..Len(calls) :
               calls[i].task = "cancelled" => calls'[i].task = "cancelled"
          /\ (call'.op = "debounced_search returns"
                /\ calls[call'.id].task = "cancelled") =>
               ret' = [raised |-> FALSE, value |-> <<>>]
         ]_vars

\* A call superseded while its task slept has returned.
C16_Witness ==
    /\ call.op = "debounced_search returns"
    /\ calls[call.id].task = "cancelled"
    /\ calls[call.id].state = "returned"

\* Call i has returned, its task is finished or cancelled and is not
\* registered in _debounce_tasks.
Settled(i) ==
    /\ calls[i].task # "pending"
    /\ calls[i].state = "returned"
    /\ \A k \in DOMAIN debounce_tasks : debounce_tasks[k] # i

C18_DebouncedResultCached ==
    \A i \in 1..Len(calls) :
      (calls[i].state = "returned" /\ calls[i].task = "done") =>
        GetCachedSearchResults(search_cache, calls[i].key, now).value
          = Some(calls[i].value)

(***************************************************************************)
(* preload_chart_data, lines 316-336.                                      *)
(***************************************************************************)
\* The mutant of all_periods: the secondary periods first
PreloadPeriodsSecondaryFirst == <<P5D, P5Y, PMax, P1M, P6M, P1Y>>

\* all_periods = priority_periods + secondary_periods, lines 324-327
PreloadPeriods == <<P1M, P6M, P1Y, P5D, P5Y, PMax>>

\* After a period whose fetch failed (get_chart_data printed the error and
\* returned [], lines 232-234), as the mutant that gives the batch up
OnPreloadErrorAbort(i) == Len(PreloadPeriods) + 1

\* After a period whose fetch failed (get_chart_data printed the error and
\* returned [], lines 232-234; the except of lines 335-336 has nothing left to
\* catch): the loop goes on with the next period
OnPreloadError(i) == i + 1

\* for period in all_periods, lines 329-336, from the i-th period on;
\* histories[i] is what the provider does when asked for the i-th period
RECURSIVE PreloadLoop(_, _, _, _, _, _, _)
PreloadLoop(cache, ts, symbol, histories, i, asked, t) ==
    IF i > Len(PreloadPeriods)
    THEN [cache |-> cache, ts |-> ts,
          log |-> [NoLog EXCEPT !.history = asked], raised |-> FALSE]
    ELSE LET period == PreloadPeriods[i]
             cache_key == ChartCacheKey(symbol, period)
         IN  IF ~IsChartCacheValid(ts, cache_key, t)
             THEN LET r == GetChartData(cache, ts, symbol, period, histories[i], t)
                      next == IF histories[i].raises THEN OnPreloadError(i) ELSE i + 1
                  IN  PreloadLoop(r.cache, r.ts, symbol, histories, next,
                                  asked \o r.log.history, t)
             ELSE PreloadLoop(cache, ts, symbol, histories, i + 1, asked, t)

\* preload_chart_data(symbol), lines 316-336
PreloadChartData(cache, ts, symbol, histories, t) ==
    PreloadLoop(cache, ts, symbol, histories, 1, <<>>, t)

(***************************************************************************)
(* The inputs of the preload specification: one symbol, and for each of    *)
(* the six periods a provider that raises, has no rows, or has one row;    *)
(* in one preload at most MaxFaults periods raise or have no rows.         *)
(***************************************************************************)
MaxFaults == 2
PreloadSymbols == {<<"B", "R", "K">>}
PreloadHistories == {h \in Histories : Len(h.rows) <= 1}
PreloadProviders ==
    {histories \in [DOMAIN PreloadPeriods -> PreloadHistories] :
       Cardinality({i \in DOMAIN PreloadPeriods : histories[i].rows = <<>>}) <= MaxFaults}
PreloadInstants == {0, ChartCacheDuration}

PreloadChartDataCall ==
    \E symbol \in PreloadSymbols, histories \in PreloadProviders :
      LET r == PreloadChartData(chart_data_cache, chart_cache_timestamps, symbol,
                                histories, now)
      IN  /\ \A i \in DOMAIN PreloadPeriods :
               \* the provider is not asked for a valid period: any one answer
               IsChartCacheValid(chart_cache_timestamps,
                                 ChartCacheKey(symbol, PreloadPeriods[i]), now)
                 => histories[i].rows # <<>>
          /\ chart_data_cache' = r.cache
          /\ chart_cache_timestamps' = r.ts
          /\ call' = [op |-> "preload_chart_data", symbol |-> symbol, at |-> now]
          /\ ret' = [raised |-> r.raised, value |-> None]
          /\ provider_log' = r.log
          /\ UNCHANGED <<threads, now, quote_vars, search_cache, stored, read_keys,
                         debounce_vars>>

PreloadTick == Tick(PreloadInstants)

PreloadNext == PreloadChartDataCall \/ PreloadTick

SpecPreload == Init /\ [][PreloadNext]_vars

(***************************************************************************)
(* Claims C19-C20: preload_chart_data.                                     *)
(***************************************************************************)
PreloadStep == call'.op = "preload_chart_data" /\ now' = now

\* C19: a second preload_chart_data(symbol) right after a first one, none
\* of whose fetches failed, asks the provider for nothing.
C19_IdempotentPreload ==
    [][(/\ PreloadStep
        /\ call.op = "preload_chart_data"
        /\ call.symbol = call'.symbol
        /\ call.at = now
        /\ \A j \in 1..Len(provider_log.history) :
             provider_log.history[j].result # "raise")
       => provider_log'.history = <<>>
      ]_vars

\* The periods of a symbol that are not valid in the chart cache, in the
\* order of the preload
RECURSIVE InvalidFrom(_, _)
InvalidFrom(symbol, i) ==
    IF i > Len(PreloadPeriods) THEN <<>>
    ELSE IF IsChartCacheValid(chart_cache_timestamps,
                              ChartCacheKey(symbol, PreloadPeriods[i]), now)
    THEN InvalidFrom(symbol, i + 1)
    ELSE <<YfPeriod(PreloadPeriods[i])>> \o InvalidFrom(symbol, i + 1)

\* C20: preload_chart_data raises nothing, asks the provider once, in order,
\* for every period that was not valid (and for no other), whatever fetches
\* fail, and ends with every period whose fetch gave rows valid in the chart
\* cache.
C20_PreloadNeverAborts ==
    [][PreloadStep =>
        LET asked == provider_log'.history
        IN  /\ ~ret'.raised
            /\ [j \in 1..Len(asked) |-> asked[j].period] = InvalidFrom(call'.symbol, 1)
            /\ \A i \in 1..Len(PreloadPeriods) :
                 LET cache_key == ChartCacheKey(call'.symbol, PreloadPeriods[i])
                 IN  (\E j \in 1..Len(asked) :
                        /\ asked[j].period = YfPeriod(PreloadPeriods[i])
                        /\ asked[j].result = "data")
                     => /\ cache_key \in DOMAIN chart_data_cache'
                        /\ chart_data_cache'[cache_key] # <<>>
                        /\ cache_key \in DOMAIN chart_cache_timestamps'
                        /\ chart_cache_timestamps'[cache_key] = now'
      ]_vars

\* A preload has ended in which the first fetch failed and a later one gave
\* rows.
C20_Witness ==
    /\ call.op = "preload_chart_data"
    /\ ~ret.raised
    /\ Len(provider_log.history) >= 2
    /\ provider_log.history[1].result = "raise"
    /\ \E j \in 2..Len(provider_log.history) : provider_log.history[j].result = "data"
    /\ \E k \in DOMAIN chart_cache_timestamps : chart_cache_timestamps[k] = now

(***************************************************************************)
(* get_historical_data, lines 144-191.  hist['Close'] and hist['Volume']   *)
(* are pandas columns of numpy float64: their arithmetic follows IEEE 754, *)
(* a division by zero gives an infinity or a not-a-number and raises       *)
(* nothing.  A float is [kind, num, den] here: kind "finite" with the      *)
(* value num / den, or "inf", "-inf", "nan".                               *)
(***************************************************************************)
Finite(num, den) == [kind |-> "finite", num |-> num, den |-> den]
NotFinite(kind) == [kind |-> kind, num |-> 0, den |-> 1]

\* a / b for two float64 whose values are the integers a and b
FloatDiv(a, b) ==
    IF b # 0 THEN Finite(a, b)
    ELSE IF a > 0 THEN NotFinite("inf")
    ELSE IF a < 0 THEN NotFinite("-inf")
    ELSE NotFinite("nan")

\* x * 100 for a float64 x
Times100(x) == IF x.kind = "finite" THEN Finite(x.num * 100, x.den) ELSE x

RECURSIVE Sum(_)
Sum(s) == IF s = <<>> THEN 0 ELSE s[1] + Sum(Tail(s))

\* get_historical_data(symbol, period), lines 144-191.  hist is what
\* ticker.history(period=period) does: it raises, or it gives rows with a
\* close and a volume (the high and the low of a row go into 'high_period'
\* and 'low_period' by max() and min() and are left out).
\* ((recent_volume - avg_volume) / avg_volume) * 100 with avg_volume the mean
\* sum / n is taken as ((n * recent_volume - sum) / sum) * 100.
GetHistoricalData(hist) ==
    IF hist.raises THEN None
    ELSE IF hist.rows = <<>> THEN None
    ELSE LET n == Len(hist.rows)
             current_price == hist.rows[n].close
             start_price == hist.rows[1].close
             trend_change == Times100(FloatDiv(current_price - start_price, start_price))
             total == Sum([i \in 1..n |-> hist.rows[i].volume])
             recent_volume == hist.rows[n].volume
             volume_trend == Times100(FloatDiv(n * recent_volume - total, total))
         IN  Some([trend_change |-> trend_change,
                   volume_trend |-> volume_trend,
                   avg_volume |-> Finite(total, n),
                   chart_data |-> [i \in 1..n |-> hist.rows[i].close],
                   current_price |-> current_price,
                   start_price |-> start_price])

(***************************************************************************)
(* The inputs of the history specification: a provider that raises, or a   *)
(* series of at most MaxBars rows.                                         *)
(***************************************************************************)
MaxBars == 3
Bars == [close : {0, 100, 110}, volume : {0, 5}]
HistoricalSeries ==
    {[raises |-> TRUE, rows |-> <<>>]}
      \cup {[raises |-> FALSE, rows |-> r] : r \in UNION {[1..n -> Bars] : n \in 0..MaxBars}}

GetHistoricalDataCall ==
    \E hist \in HistoricalSeries :
      /\ call' = [op |-> "get_historical_data", hist |-> hist]
      /\ ret' = [raised |-> FALSE, value |-> GetHistoricalData(hist)]
      /\ provider_log' = NoLog
      /\ UNCHANGED <<threads, now, quote_vars, chart_vars, search_cache, stored, read_keys,
                     debounce_vars>>

HistoryNext == GetHistoricalDataCall

SpecHistory == Init /\ [][HistoryNext]_vars

(***************************************************************************)
(* Claim C21: get_historical_data.                                         *)
(***************************************************************************)
\* C21: get_historical_data returns None when the provider raises, when the
\* series is empty, when its first close is 0 and when its mean volume is 0;
\* a summary it returns never holds a trend that is infinite or not a number.
C21_ZeroBaselineGuard ==
    call.op = "get_historical_data" =>
      LET hist == call.hist
          zero_baseline ==
            /\ hist.rows # <<>>
            /\ \/ hist.rows[1].close = 0
               \/ \A i \in 1..Len(hist.rows) : hist.rows[i].volume = 0
      IN  /\ (hist.raises \/ hist.rows = <<>> \/ zero_baseline) => ret.value = None
          /\ ret.value # None =>
               /\ ret.value[1].trend_change.kind = "finite"
               /\ ret.value[1].volume_trend.kind = "finite"

(***************************************************************************)
(* Claim C22: put and get of the three caches (specification SpecTtl).     *)
(***************************************************************************)
PutOps == {"_store_in_cache", "_store_chart_in_cache", "cache_search_results"}

\* The step is a put of one of the caches.
TtlPutStep == now' = now /\ call'.op \in PutOps

\* What a cache physically holds for a key: the value and the time stored, or
\* None when the key has no value or no timestamp
Entry(tier, k) ==
    CASE tier = "quote" ->
           IF k \in DOMAIN stock_data_cache /\ k \in DOMAIN cache_timestamps
           THEN Some([value |-> stock_data_cache[k], at |-> cache_timestamps[k]])
           ELSE None
      [] tier = "chart" ->
           IF k \in DOMAIN chart_data_cache /\ k \in DOMAIN chart_cache_timestamps
           THEN Some([value |-> chart_data_cache[k], at |-> chart_cache_timestamps[k]])
           ELSE None
      [] tier = "search" ->
           IF KeyIndex(search_cache, k) # 0
           THEN Some([value |-> search_cache[KeyIndex(search_cache, k)].results,
                      at |-> search_cache[KeyIndex(search_cache, k)].timestamp])
           ELSE None

\* C22 (as claimed): a put(k, v) leaves k in the cache with value v stored at
\* the time of the put, also when the search cache was at capacity; a get(k)
\* after the put, with no later put of k and less than ttl elapsed, returns
\* v.  (clear_chart_cache counted as ending the put.)
C22_PutVisibleAsClaimed ==
    /\ [][TtlPutStep =>
            \E e \in stored' :
              /\ e.tier = TierOfOp(call'.op) /\ e.key = call'.key /\ e.at = now
              /\ Entry(e.tier, e.key)' = Some([value |-> e.value, at |-> now])
         ]_vars
    /\ [][TtlGetStep =>
            \A e \in stored :
              (/\ e.tier = TierOfOp(call'.op)
               /\ e.key = call'.key
               /\ e.removed # "cleared"
               /\ now - e.at < TtlOf(e.tier))
              => ret'.value = Some(e.value)
         ]_vars

\* C22 (amended): a put(k, v) leaves k in the cache with value v stored at
\* the time of the put, also when the search cache was at capacity (the put
\* evicts another entry); the cache holds that entry until it is evicted or
\* cleared, and until then a get(k) with less than ttl elapsed returns v.
C22_PutVisible ==
    /\ [][TtlPutStep =>
            \E e \in stored' :
              /\ e.tier = TierOfOp(call'.op) /\ e.key = call'.key /\ e.at = now
              /\ e.removed = "no"
              /\ Entry(e.tier, e.key)' = Some([value |-> e.value, at |-> now])
         ]_vars
    /\ [](\A e \in stored :
            e.removed = "no" => Entry(e.tier, e.key) = Some([value |-> e.value, at |-> e.at]))
    /\ [][TtlGetStep =>
            \A e \in stored :
              (/\ e.tier = TierOfOp(call'.op)
               /\ e.key = call'.key
               /\ e.removed = "no"
               /\ now - e.at < TtlOf(e.tier))
              => ret'.value = Some(e.value)
         ]_vars

\* A get has returned the results of a key that was put into the full search
\* cache (another entry was evicted) and not put again.
C22_Witness ==
    /\ call.op = "get_cached_search_results"
    /\ Len(search_cache) = SearchCacheLimit
    /\ \E e \in stored : e.tier = "search" /\ e.removed = "evicted"
    /\ \E e \in stored :
         /\ e.tier = "search" /\ e.key = call.key /\ e.removed = "no"
         /\ ret.value = Some(e.value)
         /\ \A o \in stored : o.removed = "no" => o.at <= e.at

(***************************************************************************)
(* The chart cache under threads.  Viewing a symbol (main.py, lines        *)
(* 135-160) reads the chart of the current period on the event loop and    *)
(* starts two preloaders: async_preload_chart_data runs preload_chart_data *)
(* in an executor thread, _immediate_preload_common_periods checks each    *)
(* priority period on the event loop and runs get_chart_data in an         *)
(* executor thread.  A later change of period (_update_chart_only) runs    *)
(* get_chart_data on the event loop.  No statement of the service takes a  *)
(* lock, so the threads interleave between statements; a step of a thread  *)
(* is one of: the validity check of the preloader, the cache lookup of     *)
(* get_chart_data, the provider request, line 58, line 59.  Here           *)
(* provider_log is the log of all the requests made since the view.        *)
(***************************************************************************)
ImmediatePeriods == <<P1M, P6M, P1Y>>

MaxSwitches == 1
ThreadSymbol == <<"B", "R", "K">>
ViewPeriods == {P1M, P6M}
SwitchPeriods == {P6M}
ViewHistories ==
    {[raises |-> TRUE, rows |-> <<>>],
     [raises |-> FALSE, rows |-> <<[date |-> <<2024, 1, 2, 16>>, close |-> 12344]>>]}

\* The provider's answer to the threads: one row
Answered == [raises |-> FALSE, rows |-> <<[date |-> <<2024, 1, 2, 16>>, close |-> 12344]>>]

\* A thread that has not been given work
Idle == [symbol |-> <<>>, periods |-> <<>>, i |-> 1, pc |-> "idle", chart_data |-> <<>>,
         switches |-> 0]

\* Where a thread starts on a period: the preloaders at their validity check
\* (stock_service.py line 332, main.py line 193), the request path at the
\* lookup of get_chart_data (line 208)
StartPc(id) == IF id = "foreground" THEN "cached?" ELSE "valid?"

\* The thread after its work on periods[i]: at the next period, or done
NextPeriod(id, th) ==
    IF th.i + 1 > Len(th.periods)
    THEN [th EXCEPT !.i = th.i + 1, !.pc = "done", !.chart_data = <<>>]
    ELSE [th EXCEPT !.i = th.i + 1, !.pc = StartPc(id), !.chart_data = <<>>]

\* One step of a thread: the thread, the two maps and the provider log after
\* it, and whether the step wrote the value ("value"), the timestamp
\* ("timestamp") or nothing ("") of the key.
ThreadStep(id, th, cache, ts, log, history, t) ==
    LET period == th.periods[th.i]
        cache_key == ChartCacheKey(th.symbol, period)
        same == [th |-> th, cache |-> cache, ts |-> ts, log |-> log, wrote |-> ""]
    IN  CASE th.pc = "valid?" ->
               IF IsChartCacheValid(ts, cache_key, t)
               THEN [same EXCEPT !.th = NextPeriod(id, th)]
               ELSE [same EXCEPT !.th = [th EXCEPT !.pc = "cached?"]]
          [] th.pc = "cached?" ->
               IF GetChartFromCache(cache, ts, cache_key, t) # None
               THEN [same EXCEPT !.th = NextPeriod(id, th)]
               ELSE [same EXCEPT !.th = [th EXCEPT !.pc = "fetch"]]
          [] th.pc = "fetch" ->
               LET asked(result) ==
                     [log EXCEPT !.history =
                        Append(@, [symbol |-> th.symbol, period |-> YfPeriod(period),
                                   result |-> result])]
               IN  IF history.raises
                   THEN [same EXCEPT !.th = NextPeriod(id, th), !.log = asked("raise")]
                   ELSE IF history.rows = <<>>
                   THEN [same EXCEPT !.th = NextPeriod(id, th), !.log = asked("empty")]
                   ELSE [same EXCEPT
                           !.th = [th EXCEPT !.pc = "store_data",
                                             !.chart_data =
                                                [i \in 1..Len(history.rows) |->
                                                   ChartRow(history.rows[i])]],
                           !.log = asked("data")]
          [] th.pc = "store_data" ->
               [same EXCEPT !.th = [th EXCEPT !.pc = "store_ts"],
                            !.cache = DictSet(cache, cache_key, th.chart_data),
                            !.wrote = "value"]
          [] th.pc = "store_ts" ->
               [same EXCEPT !.th = NextPeriod(id, th),
                            !.ts = DictSet(ts, cache_key, t),
                            !.wrote = "timestamp"]

ThreadIds == {"foreground", "preload", "immediate"}

\* The thread is inside a call of get_chart_data
InGetChartData(th) == th.pc \in {"cached?", "fetch", "store_data", "store_ts"}

\* The history with the writer of one part of a key recorded
Written(history, key, part, by) ==
    {e \in history : ~(e.tier = "chart" /\ e.key = key /\ e.part = part)}
      \cup {[tier |-> "chart", key |-> key, part |-> part, by |-> by]}

\* _create_single_stock_content, lines 140-156: the chart of the current
\* period, then the two preloaders.  Nothing else runs yet.
CreateSingleStockContent ==
    /\ threads = <<>>
    /\ \E current_period \in ViewPeriods, history \in ViewHistories :
         LET symbol == ThreadSymbol
             cache_key == ChartCacheKey(symbol, current_period)
             r == GetChartData(chart_data_cache, chart_cache_timestamps, symbol,
                               current_period, history, now)
             by == <<"view", current_period>>
         IN  /\ chart_data_cache' = r.cache
             /\ chart_cache_timestamps' = r.ts
             /\ provider_log' = r.log
             /\ ret' = [raised |-> FALSE, value |-> r.value]
             /\ call' = [op |-> "_create_single_stock_content", symbol |-> symbol,
                         period |-> current_period]
             /\ stored' = IF r.ts # chart_cache_timestamps
                          THEN Written(Written(stored, cache_key, "value", by),
                                       cache_key, "timestamp", by)
                          ELSE stored
             /\ threads' =
                  [id \in ThreadIds |->
                     CASE id = "foreground" -> Idle
                       [] id = "preload" ->
                            [Idle EXCEPT !.symbol = symbol, !.periods = PreloadPeriods,
                                         !.pc = StartPc(id)]
                       [] id = "immediate" ->
                            [Idle EXCEPT !.symbol = symbol, !.periods = ImmediatePeriods,
                                         !.pc = StartPc(id)]]
    /\ UNCHANGED <<now, quote_vars, search_cache, read_keys, debounce_vars>>

\* _update_chart_only, lines 166-174: the request path enters get_chart_data
UpdateChartOnly ==
    /\ threads # <<>>
    /\ threads["foreground"].pc \in {"idle", "done"}
    /\ threads["foreground"].switches < MaxSwitches
    /\ \E period \in SwitchPeriods :
         /\ threads' = [threads EXCEPT !["foreground"] =
                          [symbol |-> ThreadSymbol, periods |-> <<period>>, i |-> 1,
                           pc |-> StartPc("foreground"), chart_data |-> <<>>,
                           switches |-> @.switches + 1]]
         /\ call' = [op |-> "_update_chart_only", symbol |-> ThreadSymbol,
                     period |-> period]
    /\ UNCHANGED <<now, quote_vars, chart_vars, search_cache, ret, provider_log, stored,
                   read_keys, debounce_vars>>

\* A thread takes its next step.  The validity check of
\* _immediate_preload_common_periods runs on the event loop, which is busy
\* while the request path is inside get_chart_data.
ThreadRun(id) ==
    /\ threads # <<>>
    /\ threads[id].pc \notin {"idle", "done"}
    /\ (id = "immediate" /\ threads[id].pc = "valid?")
         => ~InGetChartData(threads["foreground"])
    /\ LET th == threads[id]
           r == ThreadStep(id, th, chart_data_cache, chart_cache_timestamps,
                           provider_log, Answered, now)
           cache_key == ChartCacheKey(th.symbol, th.periods[th.i])
       IN  /\ threads' = [threads EXCEPT ![id] = r.th]
           /\ chart_data_cache' = r.cache
           /\ chart_cache_timestamps' = r.ts
           /\ provider_log' = r.log
           /\ stored' = IF r.wrote = "" THEN stored
                        ELSE Written(stored, cache_key, r.wrote,
                                     <<id, th.periods[th.i]>>)
    /\ UNCHANGED <<now, quote_vars, search_cache, call, ret, read_keys, debounce_vars>>

ThreadsNext ==
    \/ CreateSingleStockContent
    \/ UpdateChartOnly
    \/ \E id \in ThreadIds : ThreadRun(id)

SpecThreads == Init /\ [][ThreadsNext]_vars

(***************************************************************************)
(* C23                                                                     *)
(***************************************************************************)
\* The threads that are between line 58 and line 59 of _store_chart_in_cache
InStore == {id \in DOMAIN threads : threads[id].pc = "store_ts"}

\* Who wrote a part of a key last
WriterOf(key, part) ==
    {e.by : e \in {x \in stored : x.tier = "chart" /\ x.key = key /\ x.part = part}}

\* C23: under any interleaving of the chart-cache operations of the preloader
\* threads and the request path, the operations exclude each other (no two
\* threads are inside _store_chart_in_cache together), and in every state a
\* key has a value iff it has a timestamp, both written by the same put.
C23_ChartStoreThreadSafe ==
    /\ Cardinality(InStore) <= 1
    /\ DOMAIN chart_data_cache = DOMAIN chart_cache_timestamps
    /\ \A k \in DOMAIN chart_data_cache :
         WriterOf(k, "value") = WriterOf(k, "timestamp")

(***************************************************************************)
(* C28                                                                     *)
(***************************************************************************)
\* The threads that have found a key not valid and have not yet stored it
Fetching(symbol, period) ==
    {id \in DOMAIN threads :
       /\ threads[id].pc \in {"fetch", "store_data", "store_ts"}
       /\ threads[id].symbol = symbol
       /\ threads[id].periods[threads[id].i] = period}

\* The requests of the log that the provider answered with rows for a period
DataFetches(yf_period) ==
    {i \in 1..Len(provider_log.history) :
       /\ provider_log.history[i].period = yf_period
       /\ provider_log.history[i].result = "data"}

\* C28: with both preloaders and the request path at work on a symbol, no
\* (symbol, period) is fetched more than once before its entry expires (the
\* clock of SpecThreads stands still, so no entry expires): no two threads
\* are between the validity check and the end of the store of the same key,
\* and the provider has answered at most one request per period.
C28_NoDoubleFetch ==
    /\ \A period \in Range(PreloadPeriods) :
         Cardinality(Fetching(ThreadSymbol, period)) <= 1
    /\ \A period \in Range(PreloadPeriods) :
         Cardinality(DataFetches(YfPeriod(period))) <= 1

(***************************************************************************)
(* get_cache_stats.                                                        *)
(***************************************************************************)
RECURSIVE Gcd(_, _)
Gcd(a, b) == IF b = 0 THEN a ELSE Gcd(b, a % b)

\* The float a / b (0 <= a, 0 < b) as the fraction in lowest terms: two
\* quotients are the same float when they are the same fraction.
Quotient(a, b) == [num |-> a \div Gcd(a, b), den |-> b \div Gcd(a, b)]

\* The mutant of _calculate_chart_hit_rate: every entry counted as valid
CalculateChartHitRateAll(cache, ts, t) ==
    IF Cardinality(DOMAIN cache) > 0
    THEN Quotient(Cardinality(DOMAIN cache), Cardinality(DOMAIN cache))
    ELSE Quotient(0, 1)

\* _calculate_chart_hit_rate(), lines 364-369; 0.0 is the fraction 0/1
CalculateChartHitRate(cache, ts, t) ==
    LET valid_entries == Cardinality({key \in DOMAIN cache : IsChartCacheValid(ts, key, t)})
        total_entries == Cardinality(DOMAIN cache)
    IN  IF total_entries > 0 THEN Quotient(valid_entries, total_entries)
        ELSE Quotient(0, 1)

\* The index of the first sep in s from position i on, 0 when there is none
RECURSIVE Find(_, _, _)
Find(s, sep, i) ==
    IF i > Len(s) THEN 0
    ELSE IF s[i] = sep THEN i
    ELSE Find(s, sep, i + 1)

\* s.split(sep), sep one character
RECURSIVE Split(_, _)
Split(s, sep) ==
    LET at == Find(s, sep, 1)
    IN  IF at = 0 THEN <<s>>
        ELSE <<SubSeq(s, 1, at - 1)>> \o Split(SubSeq(s, at + 1, Len(s)), sep)

\* get_cache_stats(), lines 352-362; list(set(...)) is the set
GetCacheStats(stock, chart, chart_ts, search, tasks, t) ==
    [stock_data_cache_size |-> Cardinality(DOMAIN stock),
     chart_data_cache_size |-> Cardinality(DOMAIN chart),
     search_cache_size |-> Len(search),
     active_debounce_tasks |-> Cardinality(DOMAIN tasks),
     chart_cache_hit_rate |-> CalculateChartHitRate(chart, chart_ts, t),
     cached_periods |-> {Split(k, "_")[2] : k \in DOMAIN chart},
     cached_symbols |-> {Split(k, "_")[1] : k \in DOMAIN chart}]

GetCacheStatsCall ==
    /\ call' = [op |-> "get_cache_stats", at |-> now]
    /\ ret' = [raised |-> FALSE,
               value |-> GetCacheStats(stock_data_cache, chart_data_cache,
                                       chart_cache_timestamps, search_cache,
                                       debounce_tasks, now)]
    /\ provider_log' = NoLog
    /\ UNCHANGED <<now, quote_vars, chart_vars, search_cache, stored, read_keys,
                   debounce_vars, threads>>

StatsNext == GetChartDataCall \/ ClearChartCacheCall \/ ChartTick \/ GetCacheStatsCall

SpecStats == Init /\ [][StatsNext]_vars

(***************************************************************************)
(* C24                                                                     *)
(***************************************************************************)
\* The chart entries physically present, and those of them that are valid
PresentEntries == DOMAIN chart_data_cache
ValidEntries ==
    {k \in PresentEntries :
       k \in DOMAIN chart_cache_timestamps
         /\ now - chart_cache_timestamps[k] < ChartCacheDuration}

\* x = a / b
IsRatio(x, a, b) == x.den > 0 /\ x.num * b = a * x.den

\* C24: the chart_cache_hit_rate of get_cache_stats is (entries valid now) /
\* (entries present), 0 when the chart cache is empty, and lies in [0, 1]; a
\* request that is a hit, or a miss that stores nothing, does not change the
\* rate reported next.
C24_HitRateIsValidOverTotal ==
    /\ [][(now' = now /\ call'.op = "get_cache_stats") =>
            LET rate == ret'.value.chart_cache_hit_rate
            IN  /\ PresentEntries # {} =>
                     IsRatio(rate, Cardinality(ValidEntries), Cardinality(PresentEntries))
                /\ PresentEntries = {} => rate.num = 0
                /\ 0 <= rate.num /\ rate.num <= rate.den /\ rate.den > 0
         ]_vars
    /\ [][(now' = now /\ call'.op = "get_chart_data" /\ stored' = stored) =>
            CalculateChartHitRate(chart_data_cache, chart_cache_timestamps, now)'
              = CalculateChartHitRate(chart_data_cache, chart_cache_timestamps, now)
         ]_vars

\* The statistics have been taken of a chart cache of two entries, one of
\* them valid and one expired.
C24_Witness ==
    /\ call.op = "get_cache_stats"
    /\ Cardinality(PresentEntries) = 2
    /\ Cardinality(ValidEntries) = 1
    /\ ret.value.chart_cache_hit_rate = [num |-> 1, den |-> 2]

(***************************************************************************)
(* C25                                                                     *)
(***************************************************************************)
\* The (symbol, period) pairs resident in the chart cache: those stored and
\* not removed since
ResidentPairs == {e.by : e \in {x \in stored : x.tier = "chart" /\ x.removed = "no"}}

\* C25: get_cache_stats reports as cached_symbols the distinct symbols, and
\* as cached_periods the distinct periods, of the (symbol, period) pairs
\* resident in the chart cache, also for a symbol with an underscore (the
\* periods being keys of CHART_PERIOD_MAPPING).
C25_CachedSymbolsAndPeriods ==
    [][(/\ now' = now
        /\ call'.op = "get_cache_stats"
        /\ \A pair \in ResidentPairs : pair[2] \in DOMAIN CHART_PERIOD_MAPPING) =>
         /\ ret'.value.cached_symbols = {pair[1] : pair \in ResidentPairs}
         /\ ret'.value.cached_periods = {pair[2] : pair \in ResidentPairs}
      ]_vars

(***************************************************************************)
(* C26                                                                     *)
(***************************************************************************)
\* The provider's names of the periods, priority then secondary
PriorityThenSecondary == <<"1mo", "6mo", "1y", "5d", "5y", "max">>

\* The place of a provider period in that order, 0 when it has none
PlaceOf(yf_period) ==
    IF \E n \in DOMAIN PriorityThenSecondary : PriorityThenSecondary[n] = yf_period
    THEN CHOOSE n \in DOMAIN PriorityThenSecondary : PriorityThenSecondary[n] = yf_period
    ELSE 0

\* C26: preload_chart_data asks the provider in the order 1M, 6M, 1Y, 5D, 5Y,
\* Max, only for periods that were not valid in the chart cache, and ends
\* after at most six fetches.
C26_PreloadOrder ==
    [][PreloadStep =>
        LET asked == provider_log'.history
        IN  /\ Len(asked) <= 6
            /\ \A j \in 1..Len(asked) :
                 /\ asked[j].symbol = call'.symbol
                 /\ PlaceOf(asked[j].period) # 0
                 /\ \A k \in 1..Len(asked) :
                      j < k => PlaceOf(asked[j].period) < PlaceOf(asked[k].period)
                 /\ \E period \in DOMAIN CHART_PERIOD_MAPPING :
                      /\ CHART_PERIOD_MAPPING[period] = asked[j].period
                      /\ ~IsChartCacheValid(chart_cache_timestamps,
                                            ChartCacheKey(call'.symbol, period), now)
      ]_vars

\* A preload has ended that found some periods valid and asked for the
\* others, a priority period first and a secondary period last.
C26_Witness ==
    /\ call.op = "preload_chart_data"
    /\ Len(provider_log.history) \in 2..5
    /\ PlaceOf(provider_log.history[1].period) \in 1..3
    /\ PlaceOf(provider_log.history[Len(provider_log.history)].period) \in 4..6

(***************************************************************************)
(* C27                                                                     *)
(***************************************************************************)
\* C27: get_stock_data returns at most one record per symbol, also for a
\* list that names a symbol twice, with a cold or a warm cache.
C27_OneRecordPerSymbol ==
    call.op = "get_stock_data" =>
      \A i, j \in 1..Len(ret.value) :
        i # j => ret.value[i].symbol # ret.value[j].symbol

(***************************************************************************)
(* The two request paths side by side: get_stock_data and get_chart_data   *)
(* on one service, under one clock.                                        *)
(***************************************************************************)
FrameSymbols == {<<"B", "R", "K">>}
FramePeriods == {P1M}
FrameHistories == {h \in Histories : Len(h.rows) <= 1 /\ (h.raises \/ h.rows # <<>>)}
FrameInstants == {0, ChartCacheDuration}

FrameGetChartDataCall ==
    \E symbol \in FrameSymbols, period \in FramePeriods, history \in FrameHistories :
      LET r == GetChartData(chart_data_cache, chart_cache_timestamps, symbol, period,
                            history, now)
          cache_key == ChartCacheKey(symbol, period)
      IN  /\ chart_data_cache' = r.cache
          /\ chart_cache_timestamps' = r.ts
          /\ call' = [op |-> "get_chart_data", symbol |-> symbol, period |-> period,
                      at |-> now]
          /\ ret' = [raised |-> FALSE, value |-> r.value]
          /\ provider_log' = r.log
          /\ stored' = IF r.ts # chart_cache_timestamps
                       THEN Recorded(stored, "chart", cache_key, r.cache[cache_key],
                                     <<symbol, period>>, now)
                       ELSE stored
          /\ UNCHANGED <<now, quote_vars, search_cache, read_keys, debounce_vars, threads>>

FrameTick == Tick(FrameInstants)

FrameNext == GetStockDataCall \/ FrameGetChartDataCall \/ FrameTick

SpecFrame == Init /\ [][FrameNext]_vars

(***************************************************************************)
(* C29                                                                     *)
(***************************************************************************)
\* The step is a get_stock_data call every symbol of which is a valid hit.
QuoteHitStep ==
    /\ now' = now
    /\ call'.op = "get_stock_data"
    /\ call'.symbols # <<>>
    /\ \A i \in 1..Len(call'.symbols) :
         /\ IsCacheValid(cache_timestamps, call'.symbols[i], now)
         /\ call'.symbols[i] \in DOMAIN stock_data_cache

\* The step is a get_chart_data call on a valid key.
ChartHitStep ==
    /\ now' = now
    /\ call'.op = "get_chart_data"
    /\ IsChartCacheValid(chart_cache_timestamps,
                         ChartCacheKey(call'.symbol, call'.period), now)
    /\ ChartCacheKey(call'.symbol, call'.period) \in DOMAIN chart_data_cache

FailedSymbols ==
    {provider_log'.infos[i].symbol :
       i \in {j \in 1..Len(provider_log'.infos) : ~provider_log'.infos[j].ok}}
StoredSymbols ==
    {provider_log'.infos[i].symbol :
       i \in {j \in 1..Len(provider_log'.infos) : provider_log'.infos[j].ok}}

\* The quote entry of a symbol, value and timestamp, is as it was
QuoteEntryUnchanged(s) ==
    /\ (s \in DOMAIN stock_data_cache') <=> (s \in DOMAIN stock_data_cache)
    /\ s \in DOMAIN stock_data_cache => stock_data_cache'[s] = stock_data_cache[s]
    /\ (s \in DOMAIN cache_timestamps') <=> (s \in DOMAIN cache_timestamps)
    /\ s \in DOMAIN cache_timestamps => cache_timestamps'[s] = cache_timestamps[s]

\* C30: a get_chart_data call whose provider request raises changes no cache
\* map and no timestamp; a get_stock_data call in which yf.Tickers raises
\* changes none either, and one in which the fetch of a symbol raises writes
\* and removes nothing for that symbol (an expired entry stays as it is) nor
\* for any symbol it did not fetch.
C30_FailedFetchChangesNothing ==
    /\ [][(/\ now' = now
           /\ call'.op = "get_chart_data"
           /\ provider_log'.history # <<>>
           /\ provider_log'.history[1].result = "raise")
          => /\ UNCHANGED <<quote_vars, chart_vars, search_cache, stored>>
             /\ ret'.value = <<>>
         ]_vars
    /\ [][(/\ now' = now
           /\ call'.op = "get_stock_data"
           /\ provider_log'.batches # <<>>
           /\ ~provider_log'.batches[1].ok)
          => /\ UNCHANGED <<quote_vars, chart_vars, search_cache, stored>>
             /\ ret'.value = <<>>
         ]_vars
    /\ [][(/\ now' = now
           /\ call'.op = "get_stock_data"
           /\ FailedSymbols # {})
          => /\ \A s \in (DOMAIN stock_data_cache \cup DOMAIN stock_data_cache'
                            \cup DOMAIN cache_timestamps \cup DOMAIN cache_timestamps'
                            \cup FailedSymbols) \ StoredSymbols :
                  QuoteEntryUnchanged(s)
             /\ UNCHANGED <<chart_vars, search_cache>>
         ]_vars

\* A get_chart_data call has failed on a key whose entry had expired: the
\* entry is still there, and still invalid.
C30_Witness ==
    /\ call.op = "get_chart_data"
    /\ call.at = now
    /\ provider_log.history # <<>>
    /\ provider_log.history[1].result = "raise"
    /\ ChartCacheKey(call.symbol, call.period) \in DOMAIN chart_data_cache
    /\ ~IsChartCacheValid(chart_cache_timestamps,
                          ChartCacheKey(call.symbol, call.period), now)
    /\ \E s \in DOMAIN stock_data_cache : ~IsCacheValid(cache_timestamps, s, now)

=============================================================================
